---- MODULE Spec2Model ----
(***************************************************************************)
(* The house simulation of MicroBigBrother: the WorldState reducer         *)
(* (World/engine.py), the interaction engine (World/interaction_engine.py) *)
(* and the tool registry with its dispatch pipeline (World/Tools).         *)
(*                                                                         *)
(* A WorldState is a record; every engine function is an operator from a   *)
(* WorldState (and arguments) to a record [state, res] holding the new     *)
(* WorldState and the ToolResult, as the Python functions return a pair.   *)
(* An Event is [turn, actor, type, args, ok]; its uuid and its             *)
(* human-readable message are not part of the model.  Python None is       *)
(* None for strings and NoTurn for the optional turn fields.               *)
(***************************************************************************)
EXTENDS Integers, Sequences, FiniteSets, TLC

VARIABLES state, res, cli

vars == <<state, res, cli>>

(***************************************************************************)
(* Bounds of the exploration.                                              *)
(***************************************************************************)
MaxEvents == 3

MaxTaskEvents == 6

MaxRounds == 4

MaxMoves == 2

MaxSayEvents == 9

MaxRequestEvents == 13

MaxGuessEvents == 1

MaxRejectEvents == 7

MaxApartEvents == 4
\* rounds after which the driver loop stops (MAX_TURNS in player_cli.py)
MaxLiveTurns == 2
\* events of the talks among three located actors
MaxRosterEvents == 4

None == "None"

NoTurn == -1

EmptyArgs == [k \in {} |-> ""]

Get(f, k, default) == IF k \in DOMAIN f THEN f[k] ELSE default

Last(s) == s[Len(s)]

Range(s) == {s[i] : i \in DOMAIN s}

(***************************************************************************)
(* World/house.py                                                          *)
(***************************************************************************)
Rooms == {"living_room", "dining_room", "kitchen", "anna_room", "kevin_room"}

Edges ==
  [r \in Rooms |->
     CASE r = "living_room" -> {"dining_room", "kitchen", "kevin_room", "anna_room"}
       [] r = "dining_room" -> {"living_room", "kitchen"}
       [] r = "kitchen"     -> {"living_room", "dining_room"}
       [] r = "anna_room"   -> {"living_room"}
       [] r = "kevin_room"  -> {"living_room"}]

\* house.edges.get(room, set())
EdgesOf(r) == IF r \in Rooms THEN Edges[r] ELSE {}

(***************************************************************************)
(* World/results.py, World/events.py, World/interactions.py                *)
(***************************************************************************)
ToolResult(ok, consume_turn) == [ok |-> ok, consume_turn |-> consume_turn, raised |-> FALSE]

Ok == ToolResult(TRUE, TRUE)

Fail == ToolResult(FALSE, TRUE)

\* the call did not return: the tool body raised
Raised == [ok |-> FALSE, consume_turn |-> FALSE, raised |-> TRUE]

new_event(turn, actor, type, args) ==
  [turn |-> turn, actor |-> actor, type |-> type, args |-> args, ok |-> TRUE]

Interaction(id, kind, initiator, target, room_id, created_turn, data) ==
  [id |-> id, kind |-> kind, initiator |-> initiator, target |-> target,
   room_id |-> room_id, status |-> "pending", created_turn |-> created_turn,
   started_turn |-> NoTurn, ended_turn |-> NoTurn, ended_by |-> None,
   ended_reason |-> None, data |-> data, max_exchanges |-> 3, messages |-> <<>>]

max_utterances(inter) == (IF inter.max_exchanges > 0 THEN inter.max_exchanges ELSE 0) * 2

\* the ids are "i1", "i2", ...; the dict keeps them in creation order
IdOf(n) == "i" \o ToString(n)

IsActiveTalkOf(s, iid, actor) ==
  LET inter == s.interactions[iid]
  IN inter.kind = "talk" /\ inter.status = "active" /\ actor \in {inter.initiator, inter.target}

\* active_talk_id(state, actor) is not None
in_active_talk(s, actor) == \E iid \in DOMAIN s.interactions : IsActiveTalkOf(s, iid, actor)

(***************************************************************************)
(* World/state.py                                                          *)
(***************************************************************************)
make_initial_state ==
  [locations |-> [a \in {"kevin", "anna"} |-> "living_room"],
   turn |-> 0,
   room_locked |-> [r \in {"anna_room", "kevin_room"} |-> r = "anna_room"],
   completed_tasks |-> {},
   actor_counters |-> [a \in {"kevin", "anna"} |->
                         IF a = "kevin" THEN [requests_left |-> 9]
                         ELSE [guesses_left |-> 1, rejects_left |-> 3]],
   actor_flags |-> [a \in {"kevin", "anna"} |-> [cooked_this_turn |-> FALSE]],
   turn_order |-> <<"kevin", "anna">>,
   turn_index |-> 0,
   actors |-> [a \in {"kevin", "anna"} |->
                 IF a = "kevin" THEN {"kevin_room"} ELSE {"anna_room"}],
   events |-> <<>>,
   interactions |-> [k \in {} |-> 0],
   next_interaction_id |-> 1]

current_actor(s) ==
  IF s.turn_order = <<>> THEN "player" ELSE s.turn_order[s.turn_index + 1]

(***************************************************************************)
(* World/engine.py                                                         *)
(***************************************************************************)
append_events(s, evs) == IF evs = <<>> THEN s ELSE [s EXCEPT !.events = @ \o evs]

emit(s, actor, type, args) == append_events(s, <<new_event(s.turn, actor, type, args)>>)

\* mutant of is_locked: no room counts as locked
is_locked_never(s, room_id) == FALSE

is_locked(s, room_id) == Get(s.room_locked, room_id, FALSE)

\* mutant of can_enter_room: the lock is not consulted
can_enter_room_ignoring_lock(s, who, room_id) == TRUE

can_enter_room(s, who, room_id) == ~is_locked(s, room_id)

can_exit_room(s, who, room_id) == TRUE

\* None when no actor owns the room
room_owner(s, room_id) ==
  IF \E a \in DOMAIN s.actors : room_id \in s.actors[a]
  THEN CHOOSE a \in DOMAIN s.actors : room_id \in s.actors[a]
  ELSE None

can_toggle_lock(s, who, room_id) ==
  /\ room_id \in Rooms
  /\ room_owner(s, room_id) # None
  /\ who = room_owner(s, room_id)
  /\ who \in DOMAIN s.locations
  /\ \/ s.locations[who] = room_id
     \/ room_id \in EdgesOf(s.locations[who])

\* mutant of advance_turn: the wrap test is > instead of >=
advance_turn_late_wrap(s) ==
  IF s.turn_order = <<>>
  THEN [s EXCEPT !.turn = @ + 1]
  ELSE IF s.turn_index + 1 > Len(s.turn_order)
       THEN [s EXCEPT !.turn = @ + 1, !.turn_index = 0]
       ELSE [s EXCEPT !.turn_index = @ + 1]

\* mutant of advance_turn: the round counter is incremented on every call
advance_turn_every_call(s) ==
  IF s.turn_order = <<>>
  THEN [s EXCEPT !.turn = @ + 1]
  ELSE IF s.turn_index + 1 >= Len(s.turn_order)
       THEN [s EXCEPT !.turn = @ + 1, !.turn_index = 0]
       ELSE [s EXCEPT !.turn = @ + 1, !.turn_index = @ + 1]

advance_turn(s) ==
  IF s.turn_order = <<>>
  THEN [s EXCEPT !.turn = @ + 1]
  ELSE IF s.turn_index + 1 >= Len(s.turn_order)
       THEN [s EXCEPT !.turn = @ + 1, !.turn_index = 0]
       ELSE [s EXCEPT !.turn_index = @ + 1]

\* mutant of apply_move: can_enter_room is not consulted
apply_move_into_locked(s, who, dst) ==
  IF who \notin DOMAIN s.locations THEN [state |-> s, res |-> Fail]
  ELSE LET src == s.locations[who] IN
    IF dst \notin Rooms THEN [state |-> s, res |-> Fail]
    ELSE IF dst = src THEN [state |-> s, res |-> Fail]
    ELSE IF dst \notin EdgesOf(src) THEN [state |-> s, res |-> Fail]
    ELSE [state |-> emit([s EXCEPT !.locations[who] = dst], who, "move",
                         [src |-> src, dst |-> dst]),
          res |-> Ok]

apply_move(s, who, dst) ==
  IF who \notin DOMAIN s.locations THEN [state |-> s, res |-> Fail]
  ELSE LET src == s.locations[who] IN
    IF dst \notin Rooms THEN [state |-> s, res |-> Fail]
    ELSE IF dst = src THEN [state |-> s, res |-> Fail]
    ELSE IF dst \notin EdgesOf(src) THEN [state |-> s, res |-> Fail]
    ELSE IF ~can_enter_room(s, who, dst) THEN [state |-> s, res |-> Fail]
    ELSE [state |-> emit([s EXCEPT !.locations[who] = dst], who, "move",
                         [src |-> src, dst |-> dst]),
          res |-> Ok]

\* mutant of skip_turn: the pointer is advanced before the event is emitted
skip_turn_advancing_first(s, who) ==
  [state |-> emit(advance_turn(s), who, "skip", EmptyArgs), res |-> ToolResult(TRUE, FALSE)]

skip_turn(s, who) ==
  [state |-> advance_turn(emit(s, who, "skip", EmptyArgs)), res |-> ToolResult(TRUE, FALSE)]

end_turn(s, who) ==
  [state |-> advance_turn(emit(s, who, "end_turn", EmptyArgs)), res |-> ToolResult(TRUE, FALSE)]

\* mutant of unlock_room: an unlocked room is unlocked again
unlock_room_when_unlocked(s, who, room_id) ==
  IF room_id \notin DOMAIN s.room_locked THEN [state |-> s, res |-> Fail]
  ELSE IF ~can_toggle_lock(s, who, room_id) THEN [state |-> s, res |-> Fail]
  ELSE [state |-> emit([s EXCEPT !.room_locked[room_id] = FALSE], who, "unlock_room",
                       [room_id |-> room_id]),
        res |-> Ok]

unlock_room(s, who, room_id) ==
  IF room_id \notin DOMAIN s.room_locked THEN [state |-> s, res |-> Fail]
  ELSE IF ~can_toggle_lock(s, who, room_id) THEN [state |-> s, res |-> Fail]
  ELSE IF ~s.room_locked[room_id] THEN [state |-> s, res |-> Fail]
  ELSE [state |-> emit([s EXCEPT !.room_locked[room_id] = FALSE], who, "unlock_room",
                       [room_id |-> room_id]),
        res |-> Ok]

\* mutant of lock_room: the lock is set without an event
lock_room_unlogged(s, who, room_id) ==
  IF room_id \notin DOMAIN s.room_locked THEN [state |-> s, res |-> Fail]
  ELSE IF ~can_toggle_lock(s, who, room_id) THEN [state |-> s, res |-> Fail]
  ELSE IF s.room_locked[room_id] THEN [state |-> s, res |-> Fail]
  ELSE [state |-> [s EXCEPT !.room_locked[room_id] = TRUE], res |-> Ok]

lock_room(s, who, room_id) ==
  IF room_id \notin DOMAIN s.room_locked THEN [state |-> s, res |-> Fail]
  ELSE IF ~can_toggle_lock(s, who, room_id) THEN [state |-> s, res |-> Fail]
  ELSE IF s.room_locked[room_id] THEN [state |-> s, res |-> Fail]
  ELSE [state |-> emit([s EXCEPT !.room_locked[room_id] = TRUE], who, "lock_room",
                       [room_id |-> room_id]),
        res |-> Ok]

(***************************************************************************)
(* World/interaction_engine.py: talk                                       *)
(***************************************************************************)
SetInteraction(s, iid, inter) ==
  [s EXCEPT !.interactions = (iid :> inter) @@ s.interactions]

\* the loop body for the ids i<n>, i<n+1>, ...: the events go to the state,
\* the changed interactions to the copy `ints` that is stored after the loop
RECURSIVE auto_decline_loop(_, _, _, _, _)
auto_decline_loop(s, ints, target, reason, n) ==
  IF n >= s.next_interaction_id THEN [s EXCEPT !.interactions = ints]
  ELSE LET iid == IdOf(n) IN
    IF /\ iid \in DOMAIN ints
       /\ ints[iid].kind = "talk"
       /\ ints[iid].status = "pending"
       /\ ints[iid].target = target
    THEN auto_decline_loop(
           emit(s, target, "talk_decline",
                [interaction_id |-> iid, reason |-> reason, auto |-> TRUE]),
           [ints EXCEPT ![iid] = [@ EXCEPT !.status = "declined", !.ended_by = target,
                                             !.ended_reason = reason, !.ended_turn = s.turn]],
           target, reason, n + 1)
    ELSE auto_decline_loop(s, ints, target, reason, n + 1)

auto_decline_pending_talks(s, target, reason) ==
  auto_decline_loop(s, s.interactions, target, reason, 1)

\* mutant of _new_interaction_id: the counter is not advanced
_new_interaction_id_reusing(s) == s

\* the state with the counter advanced; the id it returns is IdOf of the old counter
_new_interaction_id(s) == [s EXCEPT !.next_interaction_id = @ + 1]

_close_interaction(s, interaction_id, ended_by, reason) ==
  IF interaction_id \notin DOMAIN s.interactions THEN s
  ELSE [s EXCEPT !.interactions[interaction_id] =
          [@ EXCEPT !.status = "closed", !.ended_by = ended_by,
                    !.ended_reason = reason, !.ended_turn = s.turn]]

LocationOf(s, who) == Get(s.locations, who, None)

\* mutant of talk_request: a second pending request to the same target is allowed
talk_request_allowing_duplicates(s, initiator, target, room_id) ==
  IF initiator = target THEN [state |-> s, res |-> Fail]
  ELSE IF LocationOf(s, initiator) # room_id \/ LocationOf(s, target) # room_id
  THEN [state |-> s, res |-> Fail]
  ELSE IF \E iid \in DOMAIN s.interactions :
            IsActiveTalkOf(s, iid, initiator) \/ IsActiveTalkOf(s, iid, target)
  THEN [state |-> s, res |-> Fail]
  ELSE [state |-> emit(SetInteraction(_new_interaction_id(s), IdOf(s.next_interaction_id),
                                      Interaction(IdOf(s.next_interaction_id), "talk", initiator,
                                                  target, room_id, s.turn, EmptyArgs)),
                       initiator, "talk_request",
                       [target |-> target, room_id |-> room_id,
                        interaction_id |-> IdOf(s.next_interaction_id)]),
        res |-> Ok]

talk_request(s, initiator, target, room_id) ==
  IF initiator = target THEN [state |-> s, res |-> Fail]
  ELSE IF LocationOf(s, initiator) # room_id \/ LocationOf(s, target) # room_id
  THEN [state |-> s, res |-> Fail]
  ELSE IF \E iid \in DOMAIN s.interactions :
            IsActiveTalkOf(s, iid, initiator) \/ IsActiveTalkOf(s, iid, target)
  THEN [state |-> s, res |-> Fail]
  ELSE IF \E iid \in DOMAIN s.interactions :
            /\ s.interactions[iid].kind = "talk"
            /\ s.interactions[iid].status = "pending"
            /\ s.interactions[iid].initiator = initiator
            /\ s.interactions[iid].target = target
  THEN [state |-> s, res |-> Fail]
  ELSE [state |-> emit(SetInteraction(_new_interaction_id(s), IdOf(s.next_interaction_id),
                                      Interaction(IdOf(s.next_interaction_id), "talk", initiator,
                                                  target, room_id, s.turn, EmptyArgs)),
                       initiator, "talk_request",
                       [target |-> target, room_id |-> room_id,
                        interaction_id |-> IdOf(s.next_interaction_id)]),
        res |-> Ok]

\* mutant of talk_accept: the status of the interaction is not checked
talk_accept_any_status(s, who, interaction_id) ==
  IF interaction_id \notin DOMAIN s.interactions THEN [state |-> s, res |-> Fail]
  ELSE LET inter == s.interactions[interaction_id] IN
    IF inter.kind # "talk" THEN [state |-> s, res |-> Fail]
    ELSE IF who # inter.target THEN [state |-> s, res |-> Fail]
    ELSE IF \/ LocationOf(s, inter.initiator) # inter.room_id
            \/ LocationOf(s, inter.target) # inter.room_id
    THEN [state |-> s, res |-> Fail]
    ELSE [state |-> emit([s EXCEPT !.interactions[interaction_id] =
                            [@ EXCEPT !.status = "active", !.started_turn = s.turn]],
                         who, "talk_start", [interaction_id |-> interaction_id]),
          res |-> ToolResult(TRUE, FALSE)]

talk_accept(s, who, interaction_id) ==
  IF interaction_id \notin DOMAIN s.interactions THEN [state |-> s, res |-> Fail]
  ELSE LET inter == s.interactions[interaction_id] IN
    IF inter.kind # "talk" THEN [state |-> s, res |-> Fail]
    ELSE IF inter.status # "pending" THEN [state |-> s, res |-> Fail]
    ELSE IF who # inter.target THEN [state |-> s, res |-> Fail]
    ELSE IF \/ LocationOf(s, inter.initiator) # inter.room_id
            \/ LocationOf(s, inter.target) # inter.room_id
    THEN [state |-> s, res |-> Fail]
    ELSE [state |-> emit([s EXCEPT !.interactions[interaction_id] =
                            [@ EXCEPT !.status = "active", !.started_turn = s.turn]],
                         who, "talk_start", [interaction_id |-> interaction_id]),
          res |-> ToolResult(TRUE, FALSE)]

talk_decline(s, who, interaction_id) ==
  IF interaction_id \notin DOMAIN s.interactions THEN [state |-> s, res |-> Fail]
  ELSE LET inter == s.interactions[interaction_id] IN
    IF inter.kind # "talk" THEN [state |-> s, res |-> Fail]
    ELSE IF inter.status # "pending" THEN [state |-> s, res |-> Fail]
    ELSE IF who # inter.target THEN [state |-> s, res |-> Fail]
    ELSE [state |-> emit([s EXCEPT !.interactions[interaction_id].status = "declined"],
                         who, "talk_decline", [interaction_id |-> interaction_id]),
          res |-> ToolResult(TRUE, FALSE)]

\* mutant of talk_end: the result asks for the turn to be consumed
talk_end_consuming_turn(s, who, interaction_id) ==
  IF interaction_id \notin DOMAIN s.interactions THEN [state |-> s, res |-> Fail]
  ELSE LET inter == s.interactions[interaction_id] IN
    IF inter.kind # "talk" THEN [state |-> s, res |-> Fail]
    ELSE IF inter.status # "active" THEN [state |-> s, res |-> Fail]
    ELSE IF who \notin {inter.initiator, inter.target} THEN [state |-> s, res |-> Fail]
    ELSE [state |-> emit(_close_interaction(s, interaction_id, who, "ended_by_actor"),
                         who, "talk_end",
                         [interaction_id |-> interaction_id, reason |-> "ended_by_actor"]),
          res |-> ToolResult(TRUE, TRUE)]

talk_end(s, who, interaction_id) ==
  IF interaction_id \notin DOMAIN s.interactions THEN [state |-> s, res |-> Fail]
  ELSE LET inter == s.interactions[interaction_id] IN
    IF inter.kind # "talk" THEN [state |-> s, res |-> Fail]
    ELSE IF inter.status # "active" THEN [state |-> s, res |-> Fail]
    ELSE IF who \notin {inter.initiator, inter.target} THEN [state |-> s, res |-> Fail]
    ELSE [state |-> emit(_close_interaction(s, interaction_id, who, "ended_by_actor"),
                         who, "talk_end",
                         [interaction_id |-> interaction_id, reason |-> "ended_by_actor"]),
          res |-> ToolResult(TRUE, FALSE)]

\* mutant of after_say: the talk closes one utterance late
after_say_one_late(s, who, interaction_id) ==
  IF Len(s.interactions[interaction_id].messages) > max_utterances(s.interactions[interaction_id])
  THEN [state |-> emit(_close_interaction(s, interaction_id, who, "max_exchanges"),
                       who, "talk_end",
                       [interaction_id |-> interaction_id, reason |-> "max_exchanges"]),
        res |-> ToolResult(TRUE, FALSE)]
  ELSE [state |-> s, res |-> ToolResult(TRUE, FALSE)]

\* the auto-close when the utterance just stored reaches max_utterances
after_say(s, who, interaction_id) ==
  IF Len(s.interactions[interaction_id].messages) >= max_utterances(s.interactions[interaction_id])
  THEN [state |-> emit(_close_interaction(s, interaction_id, who, "max_exchanges"),
                       who, "talk_end",
                       [interaction_id |-> interaction_id, reason |-> "max_exchanges"]),
        res |-> ToolResult(TRUE, FALSE)]
  ELSE [state |-> s, res |-> ToolResult(TRUE, FALSE)]

\* mutant of talk_say: the rooms of the two participants are not looked at
talk_say_ignoring_rooms(s, who, interaction_id, text) ==
  IF interaction_id \notin DOMAIN s.interactions THEN [state |-> s, res |-> Fail]
  ELSE LET inter == s.interactions[interaction_id] IN
    IF inter.kind # "talk" THEN [state |-> s, res |-> Fail]
    ELSE IF inter.status # "active" THEN [state |-> s, res |-> Fail]
    ELSE IF who \notin {inter.initiator, inter.target} THEN [state |-> s, res |-> Fail]
    ELSE after_say(emit([s EXCEPT !.interactions[interaction_id].messages =
                                  Append(@, [speaker |-> who, text |-> text, turn |-> s.turn])],
                        who, "talk_say", [interaction_id |-> interaction_id, text |-> text]),
                   who, interaction_id)

\* mutant of talk_say: the speaker need not be a participant
talk_say_by_anyone(s, who, interaction_id, text) ==
  IF interaction_id \notin DOMAIN s.interactions THEN [state |-> s, res |-> Fail]
  ELSE LET inter == s.interactions[interaction_id] IN
    IF inter.kind # "talk" THEN [state |-> s, res |-> Fail]
    ELSE IF inter.status # "active" THEN [state |-> s, res |-> Fail]
    ELSE IF \/ LocationOf(s, inter.initiator) # inter.room_id
            \/ LocationOf(s, inter.target) # inter.room_id
    THEN [state |-> emit(_close_interaction(s, interaction_id, who, "separated"),
                         who, "talk_end",
                         [interaction_id |-> interaction_id, reason |-> "separated"]),
          res |-> ToolResult(TRUE, FALSE)]
    ELSE after_say(emit([s EXCEPT !.interactions[interaction_id].messages =
                                  Append(@, [speaker |-> who, text |-> text, turn |-> s.turn])],
                        who, "talk_say", [interaction_id |-> interaction_id, text |-> text]),
                   who, interaction_id)

talk_say(s, who, interaction_id, text) ==
  IF interaction_id \notin DOMAIN s.interactions THEN [state |-> s, res |-> Fail]
  ELSE LET inter == s.interactions[interaction_id] IN
    IF inter.kind # "talk" THEN [state |-> s, res |-> Fail]
    ELSE IF inter.status # "active" THEN [state |-> s, res |-> Fail]
    ELSE IF who \notin {inter.initiator, inter.target} THEN [state |-> s, res |-> Fail]
    ELSE IF \/ LocationOf(s, inter.initiator) # inter.room_id
            \/ LocationOf(s, inter.target) # inter.room_id
    THEN [state |-> emit(_close_interaction(s, interaction_id, who, "separated"),
                         who, "talk_end",
                         [interaction_id |-> interaction_id, reason |-> "separated"]),
          res |-> ToolResult(TRUE, FALSE)]
    ELSE after_say(emit([s EXCEPT !.interactions[interaction_id].messages =
                                  Append(@, [speaker |-> who, text |-> text, turn |-> s.turn])],
                        who, "talk_say", [interaction_id |-> interaction_id, text |-> text]),
                   who, interaction_id)

(***************************************************************************)
(* World/interaction_engine.py: task requests.  These four functions are   *)
(* imported by registry.py and tasks_requests.py; they follow sections 4.2 *)
(* and 4.4 of the specification.                                           *)
(***************************************************************************)
task_request(s, initiator, target, room_id, tool_name, tool_args) ==
  [state |-> emit(SetInteraction(_new_interaction_id(s), IdOf(s.next_interaction_id),
                                 Interaction(IdOf(s.next_interaction_id), "task_request",
                                             initiator, target, room_id, s.turn,
                                             [tool |-> tool_name, args |-> tool_args])),
                  initiator, "task_request",
                  [target |-> target, room_id |-> room_id,
                   interaction_id |-> IdOf(s.next_interaction_id),
                   tool |-> tool_name, tool_args |-> tool_args]),
   res |-> Ok]

IsPendingTaskRequestFor(s, iid, target) ==
  /\ iid \in DOMAIN s.interactions
  /\ s.interactions[iid].kind = "task_request"
  /\ s.interactions[iid].status = "pending"
  /\ s.interactions[iid].target = target

task_accept(s, target, interaction_id) ==
  IF IsPendingTaskRequestFor(s, interaction_id, target)
  THEN [state |-> s, res |-> Ok]
  ELSE [state |-> s, res |-> Fail]

task_reject(s, target, interaction_id, reason) ==
  IF ~IsPendingTaskRequestFor(s, interaction_id, target) THEN [state |-> s, res |-> Fail]
  ELSE [state |-> emit([s EXCEPT !.interactions[interaction_id] =
                          [@ EXCEPT !.status = "declined", !.ended_by = target,
                                    !.ended_reason = reason, !.ended_turn = s.turn]],
                       target, "task_reject",
                       [interaction_id |-> interaction_id, reason |-> reason]),
        res |-> Ok]

RECURSIVE auto_reject_loop(_, _, _, _)
auto_reject_loop(s, target, reason, n) ==
  IF n >= s.next_interaction_id THEN s
  ELSE IF IsPendingTaskRequestFor(s, IdOf(n), target)
  THEN auto_reject_loop(
         emit([s EXCEPT !.interactions[IdOf(n)] =
                 [@ EXCEPT !.status = "declined", !.ended_by = target,
                           !.ended_reason = reason, !.ended_turn = s.turn]],
              target, "task_reject",
              [interaction_id |-> IdOf(n), reason |-> reason, auto |-> TRUE]),
         target, reason, n + 1)
  ELSE auto_reject_loop(s, target, reason, n + 1)

auto_reject_pending_task_requests(s, target, reason) == auto_reject_loop(s, target, reason, 1)

(***************************************************************************)
(* World/Tools/tool_validators.py                                          *)
(***************************************************************************)
actor_exists(s, who) == who \in DOMAIN s.locations

room_exists(room_id) == room_id \in Rooms

in_or_adjacent(s, who, room_id) ==
  /\ who \in DOMAIN s.locations
  /\ s.locations[who] = room_id \/ room_id \in EdgesOf(s.locations[who])

owns_room(s, who, room_id) ==
  room_owner(s, room_id) # None /\ room_owner(s, room_id) = who

(***************************************************************************)
(* World/Tools/movement.py, locks.py, time.py                              *)
(***************************************************************************)
Has(args, k) == k \in DOMAIN args

MoveToTool_can_run(s, actor, args) == Has(args, "dst")

MoveToTool_run(s, actor, args) ==
  IF /\ actor \in DOMAIN s.locations
     /\ s.locations[actor] # "living_room"
     /\ args.dst # "living_room"
  THEN [state |-> s, res |-> Fail]
  ELSE apply_move(s, actor, args.dst)

LockRoomTool_can_run(s, actor, args) == Has(args, "room_id")

LockRoomTool_run(s, actor, args) ==
  IF ~room_exists(args.room_id) THEN [state |-> s, res |-> Fail]
  ELSE IF ~actor_exists(s, actor) THEN [state |-> s, res |-> Fail]
  ELSE IF ~owns_room(s, actor, args.room_id) THEN [state |-> s, res |-> Fail]
  ELSE IF ~in_or_adjacent(s, actor, args.room_id) THEN [state |-> s, res |-> Fail]
  ELSE lock_room(s, actor, args.room_id)

UnlockRoomTool_can_run(s, actor, args) == Has(args, "room_id")

UnlockRoomTool_run(s, actor, args) ==
  IF ~room_exists(args.room_id) THEN [state |-> s, res |-> Fail]
  ELSE IF ~actor_exists(s, actor) THEN [state |-> s, res |-> Fail]
  ELSE IF ~owns_room(s, actor, args.room_id) THEN [state |-> s, res |-> Fail]
  ELSE IF ~in_or_adjacent(s, actor, args.room_id) THEN [state |-> s, res |-> Fail]
  ELSE unlock_room(s, actor, args.room_id)

\* mutant of AnnaUnlockRoomTool.can_run: the living_room test is missing
AnnaUnlockRoomTool_can_run_anywhere(s, actor, args) ==
  /\ actor = "anna"
  /\ Has(args, "room_id")

AnnaUnlockRoomTool_can_run(s, actor, args) ==
  /\ actor = "anna"
  /\ LocationOf(s, actor) = "living_room"
  /\ Has(args, "room_id")

AnnaUnlockRoomTool_run(s, actor, args) ==
  IF args.room_id \notin DOMAIN s.room_locked THEN [state |-> s, res |-> Fail]
  ELSE IF ~s.room_locked[args.room_id] THEN [state |-> s, res |-> Fail]
  ELSE [state |-> emit([s EXCEPT !.room_locked[args.room_id] = FALSE], actor, "unlock_room",
                       [room_id |-> args.room_id]),
        res |-> Ok]

EndTurnTool_can_run(s, actor, args) == TRUE

\* run calls end_turn(ctx.state) without the required argument `who`:
\* the call raises TypeError before end_turn is entered
EndTurnTool_run(s, actor, args) == [state |-> s, res |-> Raised]

(***************************************************************************)
(* World/Tools/social.py                                                   *)
(***************************************************************************)
TalkRequestTool_can_run(s, actor, args) == Has(args, "target") /\ args.target # actor

TalkRequestTool_run(s, actor, args) ==
  IF actor \notin DOMAIN s.locations THEN [state |-> s, res |-> Fail]
  ELSE talk_request(s, actor, args.target, s.locations[actor])

TalkAcceptTool_can_run(s, actor, args) == Has(args, "interaction_id")

TalkAcceptTool_run(s, actor, args) == talk_accept(s, actor, args.interaction_id)

TalkDeclineTool_can_run(s, actor, args) == Has(args, "interaction_id")

TalkDeclineTool_run(s, actor, args) == talk_decline(s, actor, args.interaction_id)

\* the drawn texts are non-blank strings
TalkSayTool_can_run(s, actor, args) == Has(args, "interaction_id") /\ Has(args, "text")

TalkSayTool_run(s, actor, args) == talk_say(s, actor, args.interaction_id, args.text)

TalkEndTool_can_run(s, actor, args) == Has(args, "interaction_id")

TalkEndTool_run(s, actor, args) == talk_end(s, actor, args.interaction_id)

(***************************************************************************)
(* World/Tools/tasks_requests.py                                           *)
(***************************************************************************)
ONE_TIME_TASKS == {"clean_living_room", "wash_dishes", "cook:egg", "cook:bacon", "cook:hotdog"}

FOODS == {"egg", "bacon", "hotdog"}

_ALLOWED_REQUEST_TOOLS == {"clean_living_room", "wash_dishes", "cook", "move_to"}

CookId(food) == "cook:" \o food

_mark_completed(s, task_id) == [s EXCEPT !.completed_tasks = @ \cup {task_id}]

_get_counter(s, actor, key, default) ==
  Get(Get(s.actor_counters, actor, EmptyArgs), key, default)

_set_counter(s, actor, key, value) ==
  [s EXCEPT !.actor_counters =
     (actor :> ((key :> value) @@ Get(s.actor_counters, actor, EmptyArgs))) @@ s.actor_counters]

\* floor is NoFloor when the caller passes none
NoFloor == -1000

_inc_counter(s, actor, key, delta, default, floor) ==
  LET cur == _get_counter(s, actor, key, default)
      nxt == cur + delta
  IN _set_counter(s, actor, key, IF floor # NoFloor /\ nxt < floor THEN floor ELSE nxt)

\* guessed_task_ids is kept as the sorted list of a set: the set stands for it
_get_flag(s, actor, key, default) == Get(Get(s.actor_flags, actor, EmptyArgs), key, default)

_set_flag(s, actor, key, value) ==
  [s EXCEPT !.actor_flags =
     (actor :> ((key :> value) @@ Get(s.actor_flags, actor, EmptyArgs))) @@ s.actor_flags]

\* mutant of _award_guess_for_task: a completion credits nothing
_award_no_guess(s) == s

_award_guess_for_task(s) == _inc_counter(s, "anna", "guesses_left", 1, 0, NoFloor)

CleanLivingRoomTool_can_run(s, actor, args) ==
  /\ actor = "anna"
  /\ LocationOf(s, actor) = "living_room"
  /\ "clean_living_room" \notin s.completed_tasks

CleanLivingRoomTool_run(s, actor, args) ==
  [state |-> emit(_award_guess_for_task(_mark_completed(s, "clean_living_room")),
                  actor, "task_completed", [task_id |-> "clean_living_room"]),
   res |-> Ok]

WashDishesTool_can_run(s, actor, args) ==
  /\ actor = "anna"
  /\ LocationOf(s, actor) = "kitchen"
  /\ "wash_dishes" \notin s.completed_tasks

WashDishesTool_run(s, actor, args) ==
  [state |-> emit(_award_guess_for_task(_mark_completed(s, "wash_dishes")),
                  actor, "task_completed", [task_id |-> "wash_dishes"]),
   res |-> Ok]

CookTool_can_run(s, actor, args) ==
  /\ actor = "anna"
  /\ LocationOf(s, actor) = "kitchen"
  /\ Has(args, "food")
  /\ args.food \in FOODS
  /\ CookId(args.food) \notin s.completed_tasks

CookTool_run(s, actor, args) ==
  [state |-> emit(_award_guess_for_task(_mark_completed(s, CookId(args.food))),
                  actor, "task_completed", [task_id |-> CookId(args.food)]),
   res |-> Ok]

\* task_id.strip().lower() on the task ids the callers pass: " Cook:Egg " is
\* the one that is not already stripped and lower-case
strip_lower(task_id) == IF task_id = " Cook:Egg " THEN "cook:egg" ELSE task_id

\* mutant of GuessTool_can_run: an id already guessed may be guessed again
GuessTool_can_run_allowing_repeats(s, actor, args) ==
  /\ actor = "anna"
  /\ _get_counter(s, "anna", "guesses_left", 0) > 0
  /\ Has(args, "task_id")
  /\ strip_lower(args.task_id) \in ONE_TIME_TASKS

GuessTool_can_run(s, actor, args) ==
  /\ actor = "anna"
  /\ _get_counter(s, "anna", "guesses_left", 0) > 0
  /\ Has(args, "task_id")
  /\ strip_lower(args.task_id) \in ONE_TIME_TASKS
  /\ strip_lower(args.task_id) \notin _get_flag(s, "anna", "guessed_task_ids", {})

GuessTool_run(s, actor, args) ==
  [state |-> emit(_set_flag(_inc_counter(s, "anna", "guesses_left", -1, 0, 0),
                            "anna", "guessed_task_ids",
                            _get_flag(s, "anna", "guessed_task_ids", {})
                              \cup {strip_lower(args.task_id)}),
                  "anna", "guess",
                  [task_id |-> strip_lower(args.task_id),
                   correct |-> strip_lower(args.task_id) \in s.completed_tasks]),
   res |-> Ok]

SkipTool_can_run(s, actor, args) == TRUE

\* mutant of SkipTool.run: the skip is logged but the pointer stays
SkipTool_run_without_advance(s, actor, args) ==
  [state |-> emit(s, actor, "skip", EmptyArgs), res |-> ToolResult(TRUE, FALSE)]

SkipTool_run(s, actor, args) == skip_turn(s, actor)

_pending_task_requests_for_target(s, actor) ==
  {iid \in DOMAIN s.interactions : IsPendingTaskRequestFor(s, iid, actor)}

RequestAnnaTool_can_run(s, actor, args) ==
  LET tool      == Get(args, "tool", None)
      tool_args == Get(args, "args", EmptyArgs)
  IN /\ actor = "kevin"
     /\ _get_counter(s, "kevin", "requests_left", 0) > 0
     /\ tool \in _ALLOWED_REQUEST_TOOLS
     /\ ~(tool = "clean_living_room" /\ "clean_living_room" \in s.completed_tasks)
     /\ ~(tool = "wash_dishes" /\ "wash_dishes" \in s.completed_tasks)
     /\ tool = "cook" =>
          /\ Has(tool_args, "food")
          /\ tool_args.food \in FOODS
          /\ CookId(tool_args.food) \notin s.completed_tasks
     /\ tool = "move_to" => Has(tool_args, "dst") /\ tool_args.dst # ""

\* the result of task_request with consume_turn = True
requested(r) == [state |-> r.state, res |-> ToolResult(r.res.ok, TRUE)]

\* mutant of RequestAnnaTool_run: the request costs nothing
RequestAnnaTool_run_free(s, actor, args) ==
  requested(task_request(s, "kevin", "anna",
                         IF "kevin" \in DOMAIN s.locations THEN s.locations["kevin"]
                         ELSE "living_room",
                         args.tool, Get(args, "args", EmptyArgs)))

RequestAnnaTool_run(s, actor, args) ==
  requested(task_request(_inc_counter(s, "kevin", "requests_left", -1, 0, 0),
                         "kevin", "anna",
                         IF "kevin" \in DOMAIN s.locations THEN s.locations["kevin"]
                         ELSE "living_room",
                         args.tool, Get(args, "args", EmptyArgs)))

TaskAcceptTool_can_run(s, actor, args) ==
  /\ actor = "anna"
  /\ Has(args, "interaction_id")
  /\ args.interaction_id \in _pending_task_requests_for_target(s, actor)

\* the requested chore is run without its can_run
RequestedTask_run(s, tool, tool_args) ==
  CASE tool = "clean_living_room" -> CleanLivingRoomTool_run(s, "anna", EmptyArgs).state
    [] tool = "wash_dishes"       -> WashDishesTool_run(s, "anna", EmptyArgs).state
    [] tool = "cook"              -> CookTool_run(s, "anna", [food |-> tool_args.food]).state
    [] OTHER                      -> s

\* the destination room of the requested tool
dest_room_of(tool, tool_args) ==
  CASE tool = "clean_living_room" -> "living_room"
    [] tool \in {"wash_dishes", "cook"} -> "kitchen"
    [] tool = "move_to" -> tool_args.dst
    [] OTHER -> None

\* the forced move: bypasses adjacency and the hub rule
forced_move(s, dest_room) ==
  emit([s EXCEPT !.locations = ("anna" :> dest_room) @@ s.locations],
       "anna", "forced_move", [dst |-> dest_room, reason |-> "task_accept"])

close_request(s, iid) ==
  IF iid \in DOMAIN s.interactions
  THEN [s EXCEPT !.interactions[iid] =
          [@ EXCEPT !.status = "closed", !.ended_by = "anna",
                    !.ended_reason = "accepted+done", !.ended_turn = s.turn]]
  ELSE s

\* mutant of fulfil_request: the lock of the destination is not consulted
fulfil_request_through_lock(s, iid, tool, tool_args, dest_room) ==
  [state |-> emit(close_request(
                    RequestedTask_run(
                      IF dest_room # None /\ dest_room # ""
                      THEN forced_move(s, dest_room) ELSE s,
                      tool, tool_args),
                    iid),
                  "anna", "task_fulfilled",
                  [interaction_id |-> iid, tool |-> tool, tool_args |-> tool_args]),
   res |-> ToolResult(TRUE, TRUE)]

\* TaskAcceptTool.run after task_accept has succeeded on state s
fulfil_request(s, iid, tool, tool_args, dest_room) ==
  IF dest_room # None /\ dest_room # "" /\ ~can_enter_room(s, "anna", dest_room)
  THEN [state |-> task_reject(s, "anna", iid, "destination locked").state, res |-> Fail]
  ELSE [state |-> emit(close_request(
                         RequestedTask_run(
                           IF dest_room # None /\ dest_room # ""
                           THEN forced_move(s, dest_room) ELSE s,
                           tool, tool_args),
                         iid),
                       "anna", "task_fulfilled",
                       [interaction_id |-> iid, tool |-> tool, tool_args |-> tool_args]),
        res |-> ToolResult(TRUE, TRUE)]

fulfil_accepted(s, iid) ==
  fulfil_request(s, iid, s.interactions[iid].data.tool, s.interactions[iid].data.args,
                 dest_room_of(s.interactions[iid].data.tool, s.interactions[iid].data.args))

\* a is what task_accept returned
accepted(a, iid) == IF ~a.res.ok THEN a ELSE fulfil_accepted(a.state, iid)

TaskAcceptTool_run(s, actor, args) ==
  accepted(task_accept(s, "anna", args.interaction_id), args.interaction_id)

\* mutant of TaskRejectTool_can_run: rejects_left is not looked at
TaskRejectTool_can_run_unmetered(s, actor, args) ==
  /\ actor = "anna"
  /\ Has(args, "interaction_id")
  /\ args.interaction_id \in _pending_task_requests_for_target(s, actor)

TaskRejectTool_can_run(s, actor, args) ==
  /\ actor = "anna"
  /\ _get_counter(s, "anna", "rejects_left", 0) > 0
  /\ Has(args, "interaction_id")
  /\ args.interaction_id \in _pending_task_requests_for_target(s, actor)

\* a failing result is passed on, a succeeding one is rebuilt with consume_turn = True
with_consume_turn(r) == IF ~r.res.ok THEN r ELSE [state |-> r.state, res |-> ToolResult(TRUE, TRUE)]

TaskRejectTool_run(s, actor, args) ==
  with_consume_turn(task_reject(_inc_counter(s, "anna", "rejects_left", -1, 0, 0),
                                "anna", args.interaction_id, Get(args, "reason", "rejected")))

(***************************************************************************)
(* World/Tools/factory.py and registry.py                                  *)
(***************************************************************************)
ToolNames ==
  {"move_to", "lock", "unlock", "end_turn",
   "talk_request", "talk_accept", "talk_decline", "talk_say",
   "clean_living_room", "wash_dishes", "cook", "guess", "skip",
   "request_anna", "task_accept", "task_reject", "unlock_room", "talk_end"}

can_run(tool_name, s, actor, args) ==
  CASE tool_name = "move_to"           -> MoveToTool_can_run(s, actor, args)
    [] tool_name = "lock"              -> LockRoomTool_can_run(s, actor, args)
    [] tool_name = "unlock"            -> UnlockRoomTool_can_run(s, actor, args)
    [] tool_name = "end_turn"          -> EndTurnTool_can_run(s, actor, args)
    [] tool_name = "talk_request"      -> TalkRequestTool_can_run(s, actor, args)
    [] tool_name = "talk_accept"       -> TalkAcceptTool_can_run(s, actor, args)
    [] tool_name = "talk_decline"      -> TalkDeclineTool_can_run(s, actor, args)
    [] tool_name = "talk_say"          -> TalkSayTool_can_run(s, actor, args)
    [] tool_name = "clean_living_room" -> CleanLivingRoomTool_can_run(s, actor, args)
    [] tool_name = "wash_dishes"       -> WashDishesTool_can_run(s, actor, args)
    [] tool_name = "cook"              -> CookTool_can_run(s, actor, args)
    [] tool_name = "guess"             -> GuessTool_can_run(s, actor, args)
    [] tool_name = "skip"              -> SkipTool_can_run(s, actor, args)
    [] tool_name = "request_anna"      -> RequestAnnaTool_can_run(s, actor, args)
    [] tool_name = "task_accept"       -> TaskAcceptTool_can_run(s, actor, args)
    [] tool_name = "task_reject"       -> TaskRejectTool_can_run(s, actor, args)
    [] tool_name = "unlock_room"       -> AnnaUnlockRoomTool_can_run(s, actor, args)
    [] tool_name = "talk_end"          -> TalkEndTool_can_run(s, actor, args)

run(tool_name, s, actor, args) ==
  CASE tool_name = "move_to"           -> MoveToTool_run(s, actor, args)
    [] tool_name = "lock"              -> LockRoomTool_run(s, actor, args)
    [] tool_name = "unlock"            -> UnlockRoomTool_run(s, actor, args)
    [] tool_name = "end_turn"          -> EndTurnTool_run(s, actor, args)
    [] tool_name = "talk_request"      -> TalkRequestTool_run(s, actor, args)
    [] tool_name = "talk_accept"       -> TalkAcceptTool_run(s, actor, args)
    [] tool_name = "talk_decline"      -> TalkDeclineTool_run(s, actor, args)
    [] tool_name = "talk_say"          -> TalkSayTool_run(s, actor, args)
    [] tool_name = "clean_living_room" -> CleanLivingRoomTool_run(s, actor, args)
    [] tool_name = "wash_dishes"       -> WashDishesTool_run(s, actor, args)
    [] tool_name = "cook"              -> CookTool_run(s, actor, args)
    [] tool_name = "guess"             -> GuessTool_run(s, actor, args)
    [] tool_name = "skip"              -> SkipTool_run(s, actor, args)
    [] tool_name = "request_anna"      -> RequestAnnaTool_run(s, actor, args)
    [] tool_name = "task_accept"       -> TaskAcceptTool_run(s, actor, args)
    [] tool_name = "task_reject"       -> TaskRejectTool_run(s, actor, args)
    [] tool_name = "unlock_room"       -> AnnaUnlockRoomTool_run(s, actor, args)
    [] tool_name = "talk_end"          -> TalkEndTool_run(s, actor, args)

\* mutant of the exemption list: the task tools are missing
NoDecayTools_talk_only == {"talk_accept", "talk_decline"}

NoDecayTools == {"talk_accept", "talk_decline", "task_accept", "task_reject"}

\* mutant of the decay step: talk_say and talk_end are exempt as well
decay_exempting_talk_tools(tool_name, s, actor) ==
  IF tool_name \notin NoDecayTools \cup {"talk_say", "talk_end"}
  THEN auto_reject_pending_task_requests(auto_decline_pending_talks(s, actor, "decay"),
                                         actor, "decay")
  ELSE s

\* the decay step of invoke
decay(tool_name, s, actor) ==
  IF tool_name \notin NoDecayTools
  THEN auto_reject_pending_task_requests(auto_decline_pending_talks(s, actor, "decay"),
                                         actor, "decay")
  ELSE s

\* mutant of the turn consumption: consume_turn is not consulted
consume_ignoring_flag(s, r) ==
  IF r.res.raised THEN [state |-> s, res |-> r.res]
  ELSE IF r.res.ok
  THEN [state |-> advance_turn(r.state), res |-> r.res]
  ELSE r

\* the centralized turn consumption; a raising tool leaves the caller with its state s
consume(s, r) ==
  IF r.res.raised THEN [state |-> s, res |-> r.res]
  ELSE IF r.res.ok /\ r.res.consume_turn
  THEN [state |-> advance_turn(r.state), res |-> r.res]
  ELSE r

\* mutant of invoke: the decay step runs before can_run
invoke_decaying_first(tool_name, s, actor, args) ==
  IF tool_name \notin ToolNames THEN [state |-> s, res |-> Fail]
  ELSE IF ~can_run(tool_name, s, actor, args)
  THEN [state |-> decay(tool_name, s, actor), res |-> Fail]
  ELSE consume(s, run(tool_name, decay(tool_name, s, actor), actor, args))

invoke(tool_name, s, actor, args) ==
  IF tool_name \notin ToolNames THEN [state |-> s, res |-> Fail]
  ELSE IF ~can_run(tool_name, s, actor, args) THEN [state |-> s, res |-> Fail]
  ELSE consume(s, run(tool_name, decay(tool_name, s, actor), actor, args))

(***************************************************************************)
(* The visible predicates of the tool specs (ToolSpec.visible), which      *)
(* list_specs consults and invoke does not.  EndTurnTool has no spec, so   *)
(* visible is defined for the other tools only and list_specs raises.      *)
(***************************************************************************)
\* mutant of MoveToTool._choices: locked destinations are not filtered out
MoveToTool_choices_unfiltered(s, actor) ==
  IF actor \notin DOMAIN s.locations THEN {}
  ELSE LET src == s.locations[actor]
           neighbors == IF src # "living_room"
                        THEN {"living_room"} \cap EdgesOf(src)
                        ELSE EdgesOf(src) IN
       neighbors

\* MoveToTool._choices: the dst values offered, as a set
MoveToTool_choices(s, actor) ==
  IF actor \notin DOMAIN s.locations THEN {}
  ELSE LET src == s.locations[actor]
           neighbors == IF src # "living_room"
                        THEN {"living_room"} \cap EdgesOf(src)
                        ELSE EdgesOf(src) IN
       {r \in neighbors : can_enter_room(s, actor, r)}

_toggleable_rooms(s, actor, want_locked) ==
  IF actor \notin DOMAIN s.locations THEN {}
  ELSE {room_id \in DOMAIN s.room_locked :
          /\ room_owner(s, room_id) = actor
          /\ s.locations[actor] = room_id \/ room_id \in EdgesOf(s.locations[actor])
          /\ s.room_locked[room_id] = want_locked}

_co_located_others(s, actor) ==
  IF actor \notin DOMAIN s.locations THEN {}
  ELSE {e \in DOMAIN s.locations : s.locations[e] = s.locations[actor] /\ e # actor}

_pending_for_target(s, actor) ==
  {iid \in DOMAIN s.interactions :
     /\ s.interactions[iid].kind = "talk"
     /\ s.interactions[iid].status = "pending"
     /\ s.interactions[iid].target = actor}

_active_for_actor(s, actor) == {iid \in DOMAIN s.interactions : IsActiveTalkOf(s, iid, actor)}

_available_request_choices(s) ==
  {name \in _ALLOWED_REQUEST_TOOLS :
     /\ ~(name = "clean_living_room" /\ "clean_living_room" \in s.completed_tasks)
     /\ ~(name = "wash_dishes" /\ "wash_dishes" \in s.completed_tasks)
     /\ ~(name = "cook" /\ \A f \in FOODS : CookId(f) \in s.completed_tasks)}

\* getattr(tool, "spec", None) is not None
has_spec(tool_name) == tool_name # "end_turn"

\* spec.visible(ctx) of the tool's spec, for the tools that have one
visible(tool_name, s, actor) ==
  CASE tool_name = "move_to" -> ~in_active_talk(s, actor)
    [] tool_name = "lock" ->
         ~in_active_talk(s, actor) /\ _toggleable_rooms(s, actor, FALSE) # {}
    [] tool_name = "unlock" ->
         ~in_active_talk(s, actor) /\ _toggleable_rooms(s, actor, TRUE) # {}
    [] tool_name = "unlock_room" ->
         /\ actor = "anna"
         /\ LocationOf(s, actor) = "living_room"
         /\ \E r \in DOMAIN s.room_locked : s.room_locked[r]
    [] tool_name = "talk_request" ->
         _co_located_others(s, actor) # {} /\ _active_for_actor(s, actor) = {}
    [] tool_name \in {"talk_accept", "talk_decline"} -> _pending_for_target(s, actor) # {}
    [] tool_name \in {"talk_say", "talk_end"} -> _active_for_actor(s, actor) # {}
    [] tool_name = "clean_living_room" ->
         /\ actor = "anna"
         /\ LocationOf(s, actor) = "living_room"
         /\ "clean_living_room" \notin s.completed_tasks
    [] tool_name = "wash_dishes" ->
         /\ actor = "anna"
         /\ LocationOf(s, actor) = "kitchen"
         /\ "wash_dishes" \notin s.completed_tasks
    [] tool_name = "cook" ->
         /\ actor = "anna"
         /\ LocationOf(s, actor) = "kitchen"
         /\ \E f \in FOODS : CookId(f) \notin s.completed_tasks
    [] tool_name = "guess" -> actor = "anna"
    [] tool_name = "skip" -> TRUE
    [] tool_name = "request_anna" ->
         /\ actor = "kevin"
         /\ _get_counter(s, "kevin", "requests_left", 0) > 0
         /\ _available_request_choices(s) # {}
    [] tool_name \in {"task_accept", "task_reject"} ->
         actor = "anna" /\ _pending_task_requests_for_target(s, actor) # {}

\* ToolRegistry.list_specs: the names of the visible tools, or the
\* AttributeError raised at the first registered tool without a spec
list_specs(s, actor) ==
  IF \E tool_name \in ToolNames : ~has_spec(tool_name)
  THEN [raised |-> TRUE, names |-> {}]
  ELSE [raised |-> FALSE,
        names |-> {tool_name \in ToolNames : visible(tool_name, s, actor)}]

(***************************************************************************)
(* The callers: the operator's CLI and the NPC loop call invoke with a     *)
(* tool name, an acting actor and an args dict.  "player" is the fallback  *)
(* actor of current_actor; "garage", "tofu", "fly" are unknown ids.        *)
(***************************************************************************)
Callers == {"kevin", "anna", "player"}

RoomArgs == Rooms \cup {"garage"}

LockArgs == {"anna_room", "kevin_room", "living_room"}

FoodArgs == {"egg", "bacon", "tofu"}

GuessArgs == {"clean_living_room", "cook:egg", " Cook:Egg ", "cook:tofu"}

RequestArgs ==
  {[tool |-> t, args |-> EmptyArgs] : t \in {"clean_living_room", "wash_dishes", "lock"}}
    \cup {[tool |-> "cook", args |-> [food |-> f]] : f \in {"egg", "tofu"}}
    \cup {[tool |-> "move_to", args |-> [dst |-> d]] : d \in {"kitchen", "anna_room", "garage"}}
    \cup {[tool |-> "move_to", args |-> EmptyArgs]}

\* every id issued so far and the next, not yet issued, one
IdArgs(s) == {IdOf(n) : n \in 1..s.next_interaction_id}

\* the args dicts the callers pass to each tool, well-formed and not
ArgsOf(tool_name, s) ==
  CASE tool_name = "move_to" -> {[dst |-> d] : d \in RoomArgs} \cup {EmptyArgs}
    [] tool_name \in {"lock", "unlock", "unlock_room"} ->
         {[room_id |-> r] : r \in LockArgs} \cup {EmptyArgs}
    [] tool_name = "talk_request" -> {[target |-> t] : t \in Callers} \cup {EmptyArgs}
    [] tool_name \in {"talk_accept", "talk_decline", "talk_end", "task_accept", "task_reject"} ->
         {[interaction_id |-> i] : i \in IdArgs(s)} \cup {EmptyArgs}
    [] tool_name = "talk_say" ->
         {[interaction_id |-> i, text |-> "hi"] : i \in IdArgs(s)} \cup {EmptyArgs}
    [] tool_name = "cook" -> {[food |-> f] : f \in FoodArgs} \cup {EmptyArgs}
    [] tool_name = "guess" -> {[task_id |-> t] : t \in GuessArgs} \cup {EmptyArgs}
    [] tool_name = "request_anna" -> RequestArgs \cup {EmptyArgs}
    [] OTHER -> {EmptyArgs}

\* the operator's CLI as main starts it: reading its own commands, with no
\* debug override.  at is "main", "window" (inside
\* _run_conversation_window, prompting speaker about interaction_id) or
\* "exit" (main has returned)
AtMain ==
  [at |-> "main", interaction_id |-> None, speaker |-> None, debug_controlled |-> None]

\* the caller replaces its state by the returned one
Returns(r) == state' = r.state /\ res' = r.res /\ cli' = cli

\* one call of registry.invoke by a caller, for any acting actor and any of
\* the args dicts
Invoke(tool_name, bound) ==
  \E a \in Callers, args \in ArgsOf(tool_name, state) :
    /\ Len(state.events) < bound
    /\ Returns(invoke(tool_name, state, a, args))

Init == state = make_initial_state /\ res = Ok /\ cli = AtMain

\* every registered tool and the unknown name "fly"
Next == \E tool_name \in ToolNames \cup {"fly"} : Invoke(tool_name, MaxEvents)

Spec == Init /\ [][Next]_vars

(***************************************************************************)
(* The task tools alone, for the longer request/accept exchanges.          *)
(***************************************************************************)
NextTasks ==
  \/ Invoke("request_anna", MaxTaskEvents)
  \/ Invoke("task_accept", MaxTaskEvents)
  \/ Invoke("task_reject", MaxTaskEvents)
  \/ Invoke("clean_living_room", MaxTaskEvents)
  \/ Invoke("wash_dishes", MaxTaskEvents)
  \/ Invoke("cook", MaxTaskEvents)

SpecTasks == Init /\ [][NextTasks]_vars

(***************************************************************************)
(* The talk tools alone from the initial state, long enough for a          *)
(* conversation to reach its utterance cap.                                *)
(***************************************************************************)
NextTalk ==
  \/ Invoke("talk_request", MaxSayEvents)
  \/ Invoke("talk_accept", MaxSayEvents)
  \/ Invoke("talk_decline", MaxSayEvents)
  \/ Invoke("talk_say", MaxSayEvents)
  \/ Invoke("talk_end", MaxSayEvents)

SpecTalk == Init /\ [][NextTalk]_vars

(***************************************************************************)
(* The bounded counters run down: kevin asks anna to go to the kitchen     *)
(* until requests_left is used up; anna guesses before the first request   *)
(* and rejects among the first events.                                     *)
(***************************************************************************)
RequestKitchen(bound) ==
  /\ Len(state.events) < bound
  /\ Returns(invoke("request_anna", state, "kevin",
                    [tool |-> "move_to", args |-> [dst |-> "kitchen"]]))

NextCounters ==
  \/ RequestKitchen(MaxRequestEvents)
  \/ Invoke("task_reject", MaxRejectEvents)
  \/ Invoke("guess", MaxGuessEvents)

SpecCounters == Init /\ [][NextCounters]_vars

(***************************************************************************)
(* Talks whose participants walk apart: the talk tools and move_to.        *)
(***************************************************************************)
NextApart ==
  \/ Invoke("talk_request", MaxApartEvents)
  \/ Invoke("talk_accept", MaxApartEvents)
  \/ Invoke("move_to", MaxApartEvents)
  \/ Invoke("talk_say", MaxApartEvents)

SpecApart == Init /\ [][NextApart]_vars

(***************************************************************************)
(* The talk functions with a third located actor: WorldState.locations is  *)
(* a dict over any entity ids, and here "player" stands in the living room *)
(* with kevin and anna.                                                    *)
(***************************************************************************)
InitRoster ==
  /\ state = [make_initial_state EXCEPT
                !.locations = [a \in Callers |-> "living_room"]]
  /\ res = Ok
  /\ cli = AtMain

NextRoster ==
  \/ Invoke("talk_request", MaxRosterEvents)
  \/ Invoke("talk_accept", MaxRosterEvents)
  \/ Invoke("talk_decline", MaxRosterEvents)
  \/ Invoke("talk_say", MaxRosterEvents)
  \/ Invoke("talk_end", MaxRosterEvents)

SpecRoster == InitRoster /\ [][NextRoster]_vars

(***************************************************************************)
(* apply_move as a pure function: every placement of kevin and anna in     *)
(* the rooms of the house and every setting of the two locks.              *)
(***************************************************************************)
InitMove ==
  /\ state \in {[make_initial_state EXCEPT !.locations = l, !.room_locked = k] :
                  l \in [DOMAIN make_initial_state.locations -> Rooms],
                  k \in [DOMAIN make_initial_state.room_locked -> BOOLEAN]}
  /\ res = Ok
  /\ cli = AtMain

ApplyMove ==
  \E who \in Callers, dst \in RoomArgs :
    /\ Len(state.events) < MaxMoves
    /\ Returns(apply_move(state, who, dst))

SpecMove == InitMove /\ [][ApplyMove]_vars

(***************************************************************************)
(* advance_turn as a pure function: every turn order without repetition    *)
(* over the three actor ids, the empty one included, from index 0.         *)
(***************************************************************************)
TurnOrders ==
  {o \in UNION {[1..n -> Callers] : n \in 0..Cardinality(Callers)} :
     \A i \in DOMAIN o, j \in DOMAIN o : i # j => o[i] # o[j]}

InitTurn ==
  /\ state \in {[make_initial_state EXCEPT !.turn_order = o] : o \in TurnOrders}
  /\ res = Ok
  /\ cli = AtMain

AdvanceTurn ==
  /\ state.turn < MaxRounds
  /\ state' = advance_turn(state)
  /\ res' = res
  /\ cli' = cli

SpecTurn == InitTurn /\ [][AdvanceTurn]_vars

(***************************************************************************)
(* The operator's CLI of NPC/player_cli.py, one line of input per step:    *)
(* main reads a command for the controlled actor while turn is below the   *)
(* bound, and _run_conversation_window reads the lines of a conversation.  *)
(***************************************************************************)
\* _norm_token: what the operator typed, stripped and lower-cased with
\* spaces and hyphens turned into underscores
_norm_token(typed) ==
  CASE typed = "Kevin Room" -> "kevin_room"
    [] typed = "Living Room" -> "living_room"
    [] typed = "Anna" -> "anna"
    [] typed = "Kevin" -> "kevin"
    [] typed = "Egg" -> "egg"
    [] typed = "Cook:Egg" -> "cook:egg"
    [] OTHER -> typed

\* str.strip of a typed line
strip(raw) == IF raw = " /end " THEN "/end" ELSE raw

\* the text spoken: what follows "say ", or the bare line
say_text(line) == IF line = "say hi" THEN "hi" ELSE line

\* controlled = debug_controlled or current_actor(state)
controlled(s, c) ==
  IF c.debug_controlled # None THEN c.debug_controlled ELSE current_actor(s)

\* _run_conversation_window from the head of its while loop to the next
\* input() or to its return: [state, res, cli].  The loop returns when the
\* talk is no longer active and ends the talk itself when the two are not
\* in its room.
RECURSIVE conversation_loop(_, _, _, _, _)
RECURSIVE conversation_said(_, _, _, _)
conversation_loop(s, r, c, iid, speaker) ==
  IF s.interactions[iid].status # "active"
  THEN [state |-> s, res |-> r,
        cli |-> [c EXCEPT !.at = "main", !.interaction_id = None, !.speaker = None]]
  ELSE IF \/ LocationOf(s, s.interactions[iid].initiator) # s.interactions[iid].room_id
          \/ LocationOf(s, s.interactions[iid].target) # s.interactions[iid].room_id
  THEN conversation_loop(talk_end(s, speaker, iid).state,
                         talk_end(s, speaker, iid).res, c, iid, speaker)
  ELSE [state |-> s, res |-> r,
        cli |-> [c EXCEPT !.at = "window", !.interaction_id = iid, !.speaker = speaker]]

\* said is what the engine's talk_say returned: the speaker alternates
\* while the talk is still active
conversation_said(said, c, iid, speaker) ==
  conversation_loop(said.state, said.res, c, iid,
                    IF said.state.interactions[iid].status # "active" THEN speaker
                    ELSE IF speaker = said.state.interactions[iid].initiator
                         THEN said.state.interactions[iid].target
                         ELSE said.state.interactions[iid].initiator)

\* one line read at the prompt of the window: /end and /quit end the talk
\* as the speaker, help and an empty line prompt again, any other line is
\* spoken by the speaker; the engine functions are called directly
conversation_line(s, r, c, line) ==
  IF line \in {"/quit", "/exit", "/quit_convo", "/exit_convo", "/end"}
  THEN conversation_loop(talk_end(s, c.speaker, c.interaction_id).state,
                         talk_end(s, c.speaker, c.interaction_id).res,
                         c, c.interaction_id, c.speaker)
  ELSE IF line \in {"help", "?", "/help"} \/ say_text(line) = ""
  THEN conversation_loop(s, r, c, c.interaction_id, c.speaker)
  ELSE conversation_said(talk_say(s, c.speaker, c.interaction_id, say_text(line)),
                         c, c.interaction_id, c.speaker)

\* the entry of _run_conversation_window, up to its first input()
_run_conversation_window(s, r, c, interaction_id) ==
  IF interaction_id \notin DOMAIN s.interactions
  THEN [state |-> s, res |-> r, cli |-> c]
  ELSE IF s.interactions[interaction_id].kind # "talk"
  THEN [state |-> s, res |-> r, cli |-> c]
  ELSE IF s.interactions[interaction_id].status # "active"
  THEN [state |-> s, res |-> r, cli |-> c]
  ELSE conversation_loop(s, r, c, interaction_id,
                         s.interactions[interaction_id].initiator)

\* the CLI goes on from where w left it
Waits(w) == state' = w.state /\ res' = w.res /\ cli' = w.cli

\* main is reading a command: it has not returned, turn is below the bound,
\* no call has raised (an exception is not caught and ends main) and the
\* conversation window is not open
Running == cli.at = "main" /\ state.turn < MaxLiveTurns /\ ~res.raised

\* a command refused while the controlled actor is in an active talk
\* (active_iid), else passed to invoke for the controlled actor
Command(tool_name, args) ==
  IF in_active_talk(state, controlled(state, cli))
  THEN UNCHANGED vars
  ELSE Returns(invoke(tool_name, state, controlled(state, cli), args))

\* the interaction a reply command names: the id typed, or the pending
\* interactions of that kind against the controlled actor, from the
\* initiator typed or (nothing typed, token "") from anyone
Named(kind, token) ==
  IF token \in IdArgs(state) THEN {token}
  ELSE {iid \in DOMAIN state.interactions :
          /\ state.interactions[iid].kind = kind
          /\ state.interactions[iid].status = "pending"
          /\ state.interactions[iid].target = controlled(state, cli)
          /\ token = "" \/ state.interactions[iid].initiator = token}

\* the command move_to <room>
DriverMoveTo ==
  /\ Running
  /\ \E typed \in {"kitchen", "Living Room"} :
       Command("move_to", [dst |-> _norm_token(typed)])

\* the commands lock <room> and unlock <room>
DriverLock ==
  /\ Running
  /\ \E tool_name \in {"lock", "unlock"}, typed \in {"Kevin Room"} :
       Command(tool_name, [room_id |-> _norm_token(typed)])

\* the command talk_request <target>
DriverTalkRequest ==
  /\ Running
  /\ \E typed \in {"Anna"} :
       Command("talk_request", [target |-> _norm_token(typed)])

\* r is what invoke returned for talk_accept or talk_decline: after a
\* successful talk_accept main enters the conversation window, which
\* prompts the initiator
Replied(tool_name, iid, r) ==
  IF tool_name = "talk_accept" /\ r.res.ok
  THEN Waits(_run_conversation_window(r.state, r.res, cli, iid))
  ELSE Returns(r)

\* the commands talk_accept and talk_decline, with an id, with the
\* initiator's name or with nothing: no invocation unless exactly one
\* interaction is named
DriverTalkReply ==
  /\ Running
  /\ \E tool_name \in {"talk_accept", "talk_decline"},
        token \in IdArgs(state) \cup {"Kevin", ""} :
       IF Cardinality(Named("talk", _norm_token(token))) # 1
       THEN UNCHANGED vars
       ELSE \E iid \in Named("talk", _norm_token(token)) :
              Replied(tool_name, iid,
                      invoke(tool_name, state, controlled(state, cli),
                             [interaction_id |-> iid]))

\* the command talk_say, with an id and a text or with a text alone (then
\* about the one active talk of the controlled actor)
DriverTalkSay ==
  /\ Running
  /\ \/ \E iid \in IdArgs(state) :
          Returns(invoke("talk_say", state, controlled(state, cli),
                         [interaction_id |-> iid, text |-> "hi"]))
     \/ IF Cardinality(_active_for_actor(state, controlled(state, cli))) # 1
        THEN UNCHANGED vars
        ELSE \E iid \in _active_for_actor(state, controlled(state, cli)) :
               Returns(invoke("talk_say", state, controlled(state, cli),
                              [interaction_id |-> iid, text |-> "hi"]))

\* the command talk_end, with an id or alone
DriverTalkEnd ==
  /\ Running
  /\ \/ \E iid \in IdArgs(state) :
          Returns(invoke("talk_end", state, controlled(state, cli),
                         [interaction_id |-> iid]))
     \/ IF Cardinality(_active_for_actor(state, controlled(state, cli))) # 1
        THEN UNCHANGED vars
        ELSE \E iid \in _active_for_actor(state, controlled(state, cli)) :
               Returns(invoke("talk_end", state, controlled(state, cli),
                              [interaction_id |-> iid]))

\* the commands clean_living_room and wash_dishes
DriverChore ==
  /\ Running
  /\ \E tool_name \in {"clean_living_room", "wash_dishes"} :
       Command(tool_name, EmptyArgs)

\* the command cook <food>
DriverCook ==
  /\ Running
  /\ \E typed \in {"Egg", "tofu"} : Command("cook", [food |-> _norm_token(typed)])

\* the command guess <task_id>
DriverGuess ==
  /\ Running
  /\ \E typed \in {"Cook:Egg"} :
       Command("guess", [task_id |-> _norm_token(typed)])

\* the command request_anna <tool> [arg]: cook and move_to need an
\* argument, the other tools take none (usage message, no invocation)
DriverRequestAnna ==
  /\ Running
  /\ \E tool \in {"clean_living_room", "move_to"}, raw_arg \in {"", "kitchen"} :
       IF tool \in {"cook", "move_to"} /\ raw_arg = "" THEN UNCHANGED vars
       ELSE IF tool \notin {"cook", "move_to"} /\ raw_arg # "" THEN UNCHANGED vars
       ELSE Command("request_anna",
                    [tool |-> tool,
                     args |-> IF tool = "cook" THEN [food |-> _norm_token(raw_arg)]
                              ELSE IF tool = "move_to" THEN [dst |-> _norm_token(raw_arg)]
                              ELSE EmptyArgs])

\* the commands task_accept and task_reject, with an id, with the
\* initiator's name or with nothing
DriverTaskReply ==
  /\ Running
  /\ \E tool_name \in {"task_accept", "task_reject"},
        token \in IdArgs(state) \cup {"Kevin", ""} :
       IF token # "" /\ in_active_talk(state, controlled(state, cli))
       THEN UNCHANGED vars
       ELSE IF Cardinality(Named("task_request", _norm_token(token))) # 1
       THEN UNCHANGED vars
       ELSE \E iid \in Named("task_request", _norm_token(token)) :
              Returns(invoke(tool_name, state, controlled(state, cli),
                             [interaction_id |-> iid]))

\* the commands end_turn and skip
DriverEndTurn ==
  /\ Running
  /\ \E tool_name \in {"skip", "end_turn"} :
       Returns(invoke(tool_name, state, controlled(state, cli), EmptyArgs))

\* the command actions: list_specs raises and the exception ends main
DriverActions ==
  /\ Running
  /\ state' = state
  /\ res' = IF list_specs(state, controlled(state, cli)).raised THEN Raised ELSE res
  /\ cli' = cli

\* the commands control auto and control <entity>
DriverControl ==
  /\ Running
  /\ \E target \in {"anna", "player", "auto"} :
       /\ cli' = IF target = "auto" THEN [cli EXCEPT !.debug_controlled = None]
                 ELSE IF target \notin DOMAIN state.locations THEN cli
                 ELSE [cli EXCEPT !.debug_controlled = target]
       /\ UNCHANGED <<state, res>>

\* the commands quit and exit
DriverQuit ==
  /\ Running
  /\ cli' = [cli EXCEPT !.at = "exit"]
  /\ UNCHANGED <<state, res>>

\* the read-only commands (help, who, whereami, state, events, prompt,
\* look) and an unknown command
DriverLook ==
  /\ Running
  /\ UNCHANGED vars

\* one line typed at the prompt of the conversation window: a text, the
\* say shorthand, /end with blanks around it, /quit, help or nothing
WindowLine ==
  /\ cli.at = "window"
  /\ ~res.raised
  /\ \E raw \in {"hi", "say hi", " /end ", "/quit", "help", ""} :
       Waits(conversation_line(state, res, cli, strip(raw)))

NextLive ==
  \/ DriverMoveTo
  \/ DriverLock
  \/ DriverTalkRequest
  \/ DriverTalkReply
  \/ DriverTalkSay
  \/ DriverTalkEnd
  \/ DriverChore
  \/ DriverCook
  \/ DriverGuess
  \/ DriverRequestAnna
  \/ DriverTaskReply
  \/ DriverEndTurn
  \/ DriverActions
  \/ DriverControl
  \/ DriverQuit
  \/ DriverLook
  \/ WindowLine

\* the command skip typed at main's prompt: the turn-consuming command
\* that never fails (a case of DriverEndTurn)
DriverSkip ==
  /\ Running
  /\ \E r \in {invoke("skip", state, controlled(state, cli), EmptyArgs)} : Returns(r)

\* the prompts are answered: an operator left at main's prompt eventually
\* types a command that consumes the turn, and one left at the prompt of
\* the conversation window eventually types a line that is spoken or ends
\* the talk
SpecLive ==
  /\ Init
  /\ [][NextLive]_vars
  /\ WF_vars(DriverSkip)
  /\ WF_vars(WindowLine)

(***************************************************************************)
(* Properties of the dispatch pipeline, stated over the steps of Spec.     *)
(* The acting actor of a step is read from the event the step appended     *)
(* last: every engine function stamps its events with the actor it was     *)
(* called for.                                                             *)
(***************************************************************************)

\* C1: an invocation that returns ok = false returns a WorldState equal to
\* the one it was given in every field, also when the failure arises inside
\* the tool body after validation passed.
C1_FailedInvokeReturnsGivenState == [][(~res'.ok) => state' = state]_vars

\* C3 as stated: whenever room_locked[r] changes, the acting actor is the
\* owner of r and is located in r or in a room adjacent to r.
C3_LockChangeByOwnerNearby ==
  [][\A r \in DOMAIN state.room_locked :
       state'.room_locked[r] # state.room_locked[r] =>
         /\ state'.events # <<>>
         /\ Last(state'.events).actor = room_owner(state, r)
         /\ in_or_adjacent(state, Last(state'.events).actor, r)]_vars

\* C3 amended: a change of room_locked[r] made by lock or unlock is made by
\* the owner of r located in r or in a room adjacent to r; any other change
\* is an unlocking (true to false) made by anna (unlock_room) while she is
\* located in living_room, whether or not she owns r or is near it.
C3_LockChangeByOwnerOrAnnaOverride ==
  [][\A r \in DOMAIN state.room_locked :
       state'.room_locked[r] # state.room_locked[r] =>
         /\ state'.events # <<>>
         /\ Last(state'.events).type \in {"lock_room", "unlock_room"}
         /\ Last(state'.events).args = [room_id |-> r]
         /\ \/ /\ Last(state'.events).actor = room_owner(state, r)
               /\ in_or_adjacent(state, Last(state'.events).actor, r)
            \/ /\ state.room_locked[r]
               /\ ~state'.room_locked[r]
               /\ Last(state'.events).actor = "anna"
               /\ state.locations["anna"] = "living_room"]_vars

\* C3 witness: kevin_room, locked by its owner kevin, has been unlocked by
\* anna, who does not own it.
C3_AnnaUnlockedKevinRoom ==
  /\ Len(state.events) >= 2
  /\ \E i \in 1..(Len(state.events) - 1) :
       /\ state.events[i].type = "lock_room"
       /\ state.events[i].actor = "kevin"
       /\ state.events[i + 1].type = "unlock_room"
       /\ state.events[i + 1].actor = "anna"
       /\ state.events[i + 1].args = [room_id |-> "kevin_room"]
  /\ ~state.room_locked["kevin_room"]

\* C4: the key set of locations is the set of actors of the initial state
\* and every value is a room of the house, also after the forced relocation
\* task_accept performs for a move_to request with a requester-chosen dst.
C4_LocationsAreRoomsOfTheHouse ==
  /\ DOMAIN state.locations = DOMAIN make_initial_state.locations
  /\ \A a \in DOMAIN state.locations : state.locations[a] \in Rooms

\* C7: a locked room cannot be entered and any room can be left; an actor
\* located in a locked room can still move out to an adjacent unlocked
\* room; locking a room changes nobody's location.
C7_LocksBlockEntryNeverExit ==
  /\ \A who \in Callers, r \in RoomArgs :
       /\ can_exit_room(state, who, r)
       /\ (r \in DOMAIN state.room_locked /\ state.room_locked[r])
            => ~can_enter_room(state, who, r)
  /\ \A a \in DOMAIN state.locations, dst \in Rooms :
       (/\ state.locations[a] \in DOMAIN state.room_locked
        /\ state.room_locked[state.locations[a]]
        /\ dst \in EdgesOf(state.locations[a])
        /\ ~(dst \in DOMAIN state.room_locked /\ state.room_locked[dst]))
       => /\ apply_move(state, a, dst).res.ok
          /\ apply_move(state, a, dst).state.locations[a] = dst
          /\ invoke("move_to", state, a, [dst |-> dst]).res.ok
          /\ invoke("move_to", state, a, [dst |-> dst]).state.locations[a] = dst
  /\ \A who \in Callers, r \in LockArgs :
       /\ lock_room(state, who, r).state.locations = state.locations
       /\ invoke("lock", state, who, [room_id |-> r]).state.locations = state.locations

\* C7 witness: kevin entered kevin_room, locked it from inside and then
\* moved out of it while it stayed locked.
C7_MovedOutOfLockedRoom ==
  /\ Len(state.events) = 3
  /\ state.events[2].type = "lock_room"
  /\ state.events[2].actor = "kevin"
  /\ state.events[3].type = "move"
  /\ state.events[3].args = [src |-> "kevin_room", dst |-> "living_room"]
  /\ state.room_locked["kevin_room"]
  /\ state.locations["kevin"] = "living_room"

\* C9: 0 <= turn_index < len(turn_order), no tool changes turn_order, and
\* current_actor is an element of turn_order.
C9_TurnPointerInRange ==
  /\ state.turn_order = make_initial_state.turn_order
  /\ state.turn_index >= 0
  /\ state.turn_index < Len(state.turn_order)
  /\ current_actor(state) \in Range(state.turn_order)

\* C9 witness: the pointer has wrapped to 0 and moved on to index 1 again.
C9_PointerWrappedAndMovedOn == state.turn >= 1 /\ state.turn_index = 1

\* the tools C10 lists as turn-consuming
C10_TurnConsumingTools ==
  {"move_to", "lock", "unlock", "unlock_room", "talk_request", "clean_living_room",
   "wash_dishes", "cook", "guess", "request_anna", "task_accept", "task_reject", "skip"}

C10_Pointer(s) == <<s.turn, s.turn_index>>

\* the pointer one position on, turn increased exactly when it wraps to 0
C10_Stepped(s) ==
  IF s.turn_index + 1 = Len(s.turn_order)
  THEN <<s.turn + 1, 0>>
  ELSE <<s.turn, s.turn_index + 1>>

\* r is what invoke returned for tool t on state s
C10_PointerMovedAsClaimed(t, s, r) ==
  /\ ~r.res.ok => C10_Pointer(r.state) = C10_Pointer(s)
  /\ (r.res.ok /\ t \in C10_TurnConsumingTools) => C10_Pointer(r.state) = C10_Stepped(s)
  /\ C10_Pointer(r.state) \in {C10_Pointer(s), C10_Stepped(s)}

C10_AfterKevinMoves == invoke("move_to", make_initial_state, "kevin", [dst |-> "kitchen"])

C10_AfterAnnaSkips == invoke("skip", C10_AfterKevinMoves.state, "anna", EmptyArgs)

\* C10: a successful invocation of a turn-consuming tool moves the turn
\* pointer on by exactly one position (skip once, not twice), turn grows by
\* 1 exactly when turn_index wraps to 0, and a failing invocation leaves
\* turn_index and turn alone.  From the initial state kevin's move_to
\* kitchen gives turn_index = 1, turn = 0; anna's skip then gives
\* turn_index = 0, turn = 1.
C10_OneTurnPerSuccessfulInvocation ==
  /\ \A t \in ToolNames \cup {"fly"}, a \in Callers :
       \A args \in ArgsOf(t, state) :
         C10_PointerMovedAsClaimed(t, state, invoke(t, state, a, args))
  /\ C10_AfterKevinMoves.res.ok
  /\ C10_AfterKevinMoves.state.turn_index = 1
  /\ C10_AfterKevinMoves.state.turn = 0
  /\ C10_AfterAnnaSkips.res.ok
  /\ C10_AfterAnnaSkips.state.turn_index = 0
  /\ C10_AfterAnnaSkips.state.turn = 1

\* C10 witness: kevin has moved to the kitchen and anna has skipped.
C10_KevinMovedAnnaSkipped ==
  /\ Len(state.events) = 2
  /\ state.events[1].type = "move"
  /\ state.events[1].actor = "kevin"
  /\ state.events[2].type = "skip"
  /\ state.events[2].actor = "anna"
  /\ state.turn_index = 0
  /\ state.turn = 1

\* the talks of actor a that are active
C2_ActiveTalksOf(a) == {iid \in DOMAIN state.interactions : IsActiveTalkOf(state, iid, a)}

\* C2: with any number of located actors and whoever the caller-chosen
\* acting actor is, every actor is initiator or target of at most one
\* active talk, and a talk_request naming an actor who is in an active talk
\* fails.
C2_AtMostOneActiveTalkPerActor ==
  /\ \A a \in DOMAIN state.locations : Cardinality(C2_ActiveTalksOf(a)) <= 1
  /\ \A a \in Callers, b \in Callers :
       (in_active_talk(state, a) \/ in_active_talk(state, b))
         => ~invoke("talk_request", state, a, [target |-> b]).res.ok

\* C2 witness: anna and player each have a talk request pending against
\* kevin, none of them answered yet.
C2_TwoRequestsAgainstKevin ==
  \E i, j \in DOMAIN state.interactions :
    /\ state.interactions[i].kind = "talk" /\ state.interactions[j].kind = "talk"
    /\ state.interactions[i].status = "pending" /\ state.interactions[j].status = "pending"
    /\ state.interactions[i].target = "kevin" /\ state.interactions[j].target = "kevin"
    /\ state.interactions[i].initiator = "anna"
    /\ state.interactions[j].initiator = "player"

\* the task id a requested tool completes
C5_TaskIdOf(data) ==
  CASE data.tool = "cook" -> CookId(data.args.food)
    [] OTHER -> data.tool

C5_CompletionEvents(id) ==
  {i \in DOMAIN state.events :
     state.events[i].type = "task_completed" /\ state.events[i].args.task_id = id}

\* C5: a one-time task is completed at most once: an attempt to complete an
\* id that is already in completed_tasks fails, also when task_accept makes
\* the attempt on the target's behalf; the log holds at most one
\* task_completed event per id; completed_tasks stays within the catalog.
C5_OneTimeTasksCompleteOnce ==
  /\ state.completed_tasks \subseteq ONE_TIME_TASKS
  /\ \A id \in ONE_TIME_TASKS : Cardinality(C5_CompletionEvents(id)) <= 1
  /\ \A a \in Callers :
       /\ "clean_living_room" \in state.completed_tasks
            => ~invoke("clean_living_room", state, a, EmptyArgs).res.ok
       /\ "wash_dishes" \in state.completed_tasks
            => ~invoke("wash_dishes", state, a, EmptyArgs).res.ok
       /\ \A f \in FOODS :
            CookId(f) \in state.completed_tasks
              => ~invoke("cook", state, a, [food |-> f]).res.ok
  /\ \A iid \in _pending_task_requests_for_target(state, "anna") :
       C5_TaskIdOf(state.interactions[iid].data) \in state.completed_tasks
         => ~invoke("task_accept", state, "anna", [interaction_id |-> iid]).res.ok

\* C5 scenario: the log holds two task_completed events for
\* clean_living_room, both made by task_accept for anna.
C5_CleanedTwice ==
  /\ Cardinality(C5_CompletionEvents("clean_living_room")) = 2
  /\ state.actor_counters["anna"]["guesses_left"] = 3

\* what C6 expects of apply_move(s, who, dst): r is what it returned
C6_MoveAsClaimed(s, who, dst, r) ==
  /\ r.res.ok <=> /\ dst \in EdgesOf(s.locations[who])
                  /\ dst # s.locations[who]
                  /\ ~(dst \in DOMAIN s.room_locked /\ s.room_locked[dst])
  /\ r.res.ok =>
       r.state = [s EXCEPT !.locations[who] = dst,
                           !.events = Append(@, [turn |-> s.turn, actor |-> who,
                                                 type |-> "move", ok |-> TRUE,
                                                 args |-> [src |-> s.locations[who],
                                                           dst |-> dst]])]
  /\ ~r.res.ok => r.state = s

\* C6: for a known actor at src and any room id dst, apply_move succeeds
\* exactly when dst is in edges[src], dst differs from src and dst is not
\* locked; on success only locations[who] changes, to dst, and exactly one
\* move event is appended; otherwise the returned state is the given one.
C6_ApplyMoveLegalOnly ==
  \A who \in DOMAIN state.locations, dst \in RoomArgs :
    C6_MoveAsClaimed(state, who, dst, apply_move(state, who, dst))

\* C6 witness: a move has been applied, and a second one to a locked
\* adjacent room has been refused.
C6_MovedThenRefusedAtLockedDoor ==
  /\ Len(state.events) = 1
  /\ state.events[1].type = "move"
  /\ state.locations[state.events[1].actor] = state.events[1].args.dst
  /\ ~res.ok
  /\ \E r \in EdgesOf(state.events[1].args.dst) \cap DOMAIN state.room_locked :
       state.room_locked[r]

RECURSIVE C8_Advanced(_, _)
\* advance_turn applied k times
C8_Advanced(s, k) == IF k = 0 THEN s ELSE advance_turn(C8_Advanced(s, k - 1))

\* C8: from turn_index 0, len(turn_order) applications of advance_turn
\* return turn_index to 0 with turn + 1, turn being unchanged after each of
\* the applications before the last; with an empty turn_order an
\* application adds 1 to turn and leaves turn_index; advance_turn changes
\* no field other than turn and turn_index.
C8_RoundTrip ==
  /\ [advance_turn(state) EXCEPT !.turn = state.turn, !.turn_index = state.turn_index] = state
  /\ state.turn_order = <<>> =>
       /\ advance_turn(state).turn = state.turn + 1
       /\ advance_turn(state).turn_index = state.turn_index
  /\ (state.turn_order # <<>> /\ state.turn_index = 0) =>
       /\ \A k \in 1..(Len(state.turn_order) - 1) :
            /\ C8_Advanced(state, k).turn = state.turn
            /\ C8_Advanced(state, k).turn_index = k
       /\ C8_Advanced(state, Len(state.turn_order)).turn_index = 0
       /\ C8_Advanced(state, Len(state.turn_order)).turn = state.turn + 1

\* C8 witness: a round of three actors has been completed.
C8_RoundOfThreeCompleted ==
  /\ Len(state.turn_order) = 3
  /\ state.turn = 1
  /\ state.turn_index = 0

(***************************************************************************)
(* The decay step and the interaction protocol.                            *)
(***************************************************************************)

\* the talk and task_request interactions of s pending with target a
PendingAgainst(s, a) ==
  {iid \in DOMAIN s.interactions :
     /\ s.interactions[iid].kind \in {"talk", "task_request"}
     /\ s.interactions[iid].status = "pending"
     /\ s.interactions[iid].target = a}

\* the events r appended to the log of s, at positions lo..hi after it
C11_Window(s, r, lo, hi) ==
  {i \in (Len(s.events) + lo)..(Len(s.events) + hi) : i <= Len(r.state.events)}

\* r is what invoke returned to actor a, whose decaying tool passed can_run on s
C11_Decayed(s, a, r) ==
  /\ \A iid \in PendingAgainst(s, a) :
       /\ iid \in DOMAIN r.state.interactions
       /\ r.state.interactions[iid].status = "declined"
       /\ r.state.interactions[iid].kind = "talk" =>
            /\ r.state.interactions[iid].ended_by = a
            /\ r.state.interactions[iid].ended_reason = "decay"
  /\ Len(r.state.events) >= Len(s.events) + Cardinality(PendingAgainst(s, a))
  /\ SubSeq(r.state.events, 1, Len(s.events)) = s.events
  /\ \A i \in C11_Window(s, r, 1, Cardinality(PendingAgainst(s, a))) :
       /\ r.state.events[i].type \in {"talk_decline", "task_reject"}
       /\ r.state.events[i].actor = a
       /\ Has(r.state.events[i].args, "interaction_id")
       /\ r.state.events[i].args.interaction_id \in PendingAgainst(s, a)
  /\ \A iid \in PendingAgainst(s, a) :
       \E i \in C11_Window(s, r, 1, Cardinality(PendingAgainst(s, a))) :
         r.state.events[i].args.interaction_id = iid
  /\ \A b \in Callers \ {a} : \A iid \in PendingAgainst(s, b) :
       /\ iid \in DOMAIN r.state.interactions
       /\ r.state.interactions[iid] = s.interactions[iid]

\* C11: when actor a invokes a tool other than talk_accept, talk_decline,
\* task_accept and task_reject and can_run passes, every talk and
\* task_request that was pending with target a is no longer pending in the
\* returned state (a talk is declined with ended_by = a, ended_reason =
\* decay), each has an event of its own, these events directly follow the
\* old log and so precede the events of the tool, and the interactions
\* pending against other actors are unchanged.  A call that raises returns
\* no state.
C11_DecayBeforeToolBody ==
  \A t \in ToolNames \ NoDecayTools, a \in Callers :
    \A args \in ArgsOf(t, state) :
      (can_run(t, state, a, args) /\ ~invoke(t, state, a, args).res.raised)
        => C11_Decayed(state, a, invoke(t, state, a, args))

\* C11 witness: a talk and a task request pending against anna were both
\* cancelled by decay, each with its event, before anna's move was logged.
C11_TwoDecayedThenMoved ==
  /\ Len(state.events) = 5
  /\ state.events[3].type = "talk_decline"
  /\ state.events[3].actor = "anna"
  /\ state.events[4].type = "task_reject"
  /\ state.events[4].actor = "anna"
  /\ state.events[5].type = "move"
  /\ state.events[5].actor = "anna"
  /\ PendingAgainst(state, "anna") = {}

\* r is what invoke returned for args on state s: the interactions other
\* than the one args names are those of s
C12_OthersUntouched(s, args, r) ==
  /\ DOMAIN r.state.interactions = DOMAIN s.interactions
  /\ \A iid \in DOMAIN s.interactions :
       (Has(args, "interaction_id") /\ args.interaction_id = iid)
         \/ r.state.interactions[iid] = s.interactions[iid]

\* C12: talk_accept, talk_decline, task_accept or task_reject invoked by
\* actor a changes at most the interaction named by interaction_id: every
\* other talk or task_request pending against a is still pending, with
\* unchanged content, after the call.
C12_ExemptToolsTouchOnlyNamed ==
  \A t \in {"talk_accept", "talk_decline", "task_accept", "task_reject"}, a \in Callers :
    \A args \in ArgsOf(t, state) :
      C12_OthersUntouched(state, args, invoke(t, state, a, args))

\* C12 witness: anna accepted the talk i1 while the task request i2 stayed
\* pending against her.
C12_AcceptedOneOtherStillPending ==
  /\ {"i1", "i2"} \subseteq DOMAIN state.interactions
  /\ state.interactions["i1"].kind = "talk"
  /\ state.interactions["i1"].status = "active"
  /\ state.interactions["i2"].kind = "task_request"
  /\ state.interactions["i2"].status = "pending"
  /\ state.events[Len(state.events)].type = "talk_start"

\* the status changes C13 allows for a talk
C13_LegalChange(old, new) ==
  \/ new = old
  \/ old = "pending" /\ new \in {"active", "declined"}
  \/ old = "active" /\ new = "closed"

\* r is what an invocation returned on state s
C13_TalksFollowLifecycle(s, r) ==
  \A iid \in DOMAIN s.interactions :
    s.interactions[iid].kind = "talk" =>
      /\ iid \in DOMAIN r.state.interactions
      /\ C13_LegalChange(s.interactions[iid].status, r.state.interactions[iid].status)
      /\ s.interactions[iid].status \in {"closed", "declined"} =>
           r.state.interactions[iid] = s.interactions[iid]

\* C13: the status of a talk only ever changes from pending to active,
\* from pending to declined or from active to closed; once it is closed or
\* declined no operation changes its status, messages, ended_by,
\* ended_reason or ended_turn, and it is never removed from interactions.
C13_TalkLifecycle ==
  \A t \in ToolNames, a \in Callers :
    \A args \in ArgsOf(t, state) :
      C13_TalksFollowLifecycle(state, invoke(t, state, a, args))

\* C13 witness: the talk i1 was declined and a later invocation failed,
\* leaving it declined.
C13_DeclinedStaysDeclined ==
  /\ "i1" \in DOMAIN state.interactions
  /\ state.interactions["i1"].kind = "talk"
  /\ state.interactions["i1"].status = "declined"
  /\ state.events[Len(state.events)].type = "talk_decline"
  /\ ~res.ok

\* the last two events of s are a talk_say and then a talk_end on iid
C14_SayThenEnd(s, iid) ==
  /\ Len(s.events) >= 2
  /\ s.events[Len(s.events) - 1].type = "talk_say"
  /\ s.events[Len(s.events) - 1].args.interaction_id = iid
  /\ s.events[Len(s.events)].type = "talk_end"
  /\ s.events[Len(s.events)].args.interaction_id = iid
  /\ s.events[Len(s.events)].args.reason = "max_exchanges"

\* r is what talk_say on the talk iid returned on state s
C14_SayRespectsCap(s, iid, r) ==
  /\ Len(r.state.interactions[iid].messages) <= 6
  /\ (Len(s.interactions[iid].messages) < 6 /\ Len(r.state.interactions[iid].messages) = 6) =>
       /\ r.state.interactions[iid].status = "closed"
       /\ r.state.interactions[iid].ended_reason = "max_exchanges"
       /\ C14_SayThenEnd(r.state, iid)
  /\ Len(s.interactions[iid].messages) = 6 =>
       /\ ~r.res.ok
       /\ r.state.interactions[iid].messages = s.interactions[iid].messages

\* C14: a talk never holds more than 2 * max_exchanges = 6 messages; the
\* talk_say that stores the sixth message closes the talk with
\* ended_reason max_exchanges in the same step and emits talk_say followed
\* by talk_end; every later talk_say on that talk fails and leaves its
\* messages unchanged.
C14_SixMessagesThenClosed ==
  /\ \A iid \in DOMAIN state.interactions :
       state.interactions[iid].kind = "talk" =>
         /\ Len(state.interactions[iid].messages) <= 6
         /\ Len(state.interactions[iid].messages) = 6 =>
              /\ state.interactions[iid].status = "closed"
              /\ state.interactions[iid].ended_reason = "max_exchanges"
  /\ \A a \in Callers :
       \A args \in ArgsOf("talk_say", state) :
         ("interaction_id" \in DOMAIN args
            /\ args.interaction_id \in DOMAIN state.interactions
            /\ state.interactions[args.interaction_id].kind = "talk") =>
           C14_SayRespectsCap(state, args.interaction_id,
                              invoke("talk_say", state, a, args))

\* C14 witness: the sixth utterance was just said and closed the talk.
C14_SixthUtteranceClosedTalk ==
  \E iid \in DOMAIN state.interactions :
    /\ state.interactions[iid].kind = "talk"
    /\ Len(state.interactions[iid].messages) = 6
    /\ state.interactions[iid].status = "closed"
    /\ C14_SayThenEnd(state, iid)
    /\ res.ok

(***************************************************************************)
(* The bounded counters                                                    *)
(***************************************************************************)
\* every invocation of the tool t on s fails
C15_AlwaysFails(t, s) ==
  \A a \in Callers :
    \A args \in ArgsOf(t, s) : ~invoke(t, s, a, args).res.ok

\* every invocation of the tool t on s returns s
C15_LeavesUnchanged(t, s) ==
  \A a \in Callers :
    \A args \in ArgsOf(t, s) : invoke(t, s, a, args).state = s

\* C15: every actor counter (guesses_left, rejects_left, requests_left) is
\* >= 0 in every reachable state; when anna's rejects_left is 0 task_reject
\* fails and leaves the state unchanged, when guesses_left is 0 guess
\* fails, and when requests_left is 0 request_anna fails.
C15_CountersNeverNegative ==
  /\ \A a \in DOMAIN state.actor_counters :
       \A k \in DOMAIN state.actor_counters[a] : state.actor_counters[a][k] >= 0
  /\ _get_counter(state, "anna", "rejects_left", 0) = 0 =>
       C15_AlwaysFails("task_reject", state) /\ C15_LeavesUnchanged("task_reject", state)
  /\ _get_counter(state, "anna", "guesses_left", 0) = 0 =>
       C15_AlwaysFails("guess", state)
  /\ _get_counter(state, "kevin", "requests_left", 0) = 0 =>
       C15_AlwaysFails("request_anna", state)

\* C15 witness: the three counters are used up while a request of kevin is
\* still pending against anna.
C15_AllCountersUsedUp ==
  /\ state.actor_counters["anna"]["rejects_left"] = 0
  /\ state.actor_counters["anna"]["guesses_left"] = 0
  /\ state.actor_counters["kevin"]["requests_left"] = 0
  /\ _pending_task_requests_for_target(state, "anna") # {}

(***************************************************************************)
(* Rejected invocations                                                    *)
(***************************************************************************)
\* r is what invoke returned on state s
C16_Rejected(s, r) == r.state = s /\ ~r.res.ok /\ ~r.res.raised

\* C16: when the tool name is not registered ("fly") or can_run rejects the
\* args, invoke returns the given state unchanged with a failing result: no
\* decay, no event, no counter change, no move of the turn pointer.
C16_RejectedBeforeAnyMutation ==
  \A t \in ToolNames \cup {"fly"}, a \in Callers :
    \A args \in ArgsOf(t, state) :
      (t \notin ToolNames \/ ~can_run(t, state, a, args)) =>
        C16_Rejected(state, invoke(t, state, a, args))

\* C16 witness: a talk request is pending and an invocation was just
\* refused; the request is still pending and no event followed it.
C16_RefusedWhilePending ==
  /\ Len(state.events) = 1
  /\ state.events[1].type = "talk_request"
  /\ PendingAgainst(state, "anna") # {}
  /\ ~res.ok
  /\ ~res.raised

(***************************************************************************)
(* Frame of the conversation tools                                         *)
(***************************************************************************)
\* r is what invoke returned on state s
C17_FrameKept(s, r) ==
  /\ r.state.turn = s.turn
  /\ r.state.turn_index = s.turn_index
  /\ r.state.locations = s.locations
  /\ r.state.room_locked = s.room_locked
  /\ r.state.completed_tasks = s.completed_tasks
  /\ r.state.actor_counters = s.actor_counters

\* C17: talk_accept, talk_decline, talk_say and talk_end invoked through
\* invoke, succeeding or failing, leave turn, turn_index, locations,
\* room_locked, completed_tasks and actor_counters unchanged.
C17_TalkToolsKeepFrame ==
  \A t \in {"talk_accept", "talk_decline", "talk_say", "talk_end"}, a \in Callers :
    \A args \in ArgsOf(t, state) :
      C17_FrameKept(state, invoke(t, state, a, args))

\* C17 witness: a talk was requested, accepted and ended by talk_end; the
\* turn pointer moved once, for the request only.
C17_TalkEndedWithinOneTurn ==
  /\ Len(state.events) = 3
  /\ state.events[1].type = "talk_request"
  /\ state.events[2].type = "talk_start"
  /\ state.events[3].type = "talk_end"
  /\ res.ok
  /\ state.turn_index = 1

(***************************************************************************)
(* The event log                                                           *)
(***************************************************************************)
\* the log of s is a prefix of the log of the state r returned
C18_LogExtended(s, r) ==
  /\ Len(s.events) <= Len(r.state.events)
  /\ SubSeq(r.state.events, 1, Len(s.events)) = s.events

\* r changed one of the logged parts of s
C18_Changed(s, r) ==
  \/ r.state.locations # s.locations
  \/ r.state.room_locked # s.room_locked
  \/ r.state.completed_tasks # s.completed_tasks
  \/ r.state.actor_counters # s.actor_counters
  \/ r.state.interactions # s.interactions

C18_Logged(s, r) ==
  /\ C18_LogExtended(s, r)
  /\ C18_Changed(s, r) => Len(r.state.events) > Len(s.events)

\* C18: for every invocation the events given are a prefix of the events
\* returned, and every invocation that changes locations, room_locked,
\* completed_tasks, actor_counters or interactions appends at least one
\* event in that step.
C18_EveryChangeIsLogged ==
  \A t \in ToolNames \cup {"fly"}, a \in Callers :
    \A args \in ArgsOf(t, state) :
      C18_Logged(state, invoke(t, state, a, args))

\* C18 witness: kevin locked his room and the lock is the last event logged.
C18_LockWasLogged ==
  /\ state.room_locked["kevin_room"]
  /\ Len(state.events) >= 1
  /\ state.events[Len(state.events)].type = "lock_room"
  /\ state.events[Len(state.events)].args.room_id = "kevin_room"
  /\ res.ok

(***************************************************************************)
(* Interaction ids                                                         *)
(***************************************************************************)
\* the kind of interaction each requesting tool creates
C19_KindCreatedBy(t) == IF t = "talk_request" THEN "talk" ELSE "task_request"

\* every id in use was issued: it is i<n> for an n below the counter
C19_IdsIssued(s) ==
  \A iid \in DOMAIN s.interactions :
    /\ s.interactions[iid].id = iid
    /\ \E n \in 1..(s.next_interaction_id - 1) : iid = IdOf(n)

\* r is what invoke returned on state s: nothing is taken back
C19_Monotone(s, r) ==
  /\ r.state.next_interaction_id >= s.next_interaction_id
  /\ DOMAIN s.interactions \subseteq DOMAIN r.state.interactions
  /\ \A iid \in DOMAIN s.interactions :
       /\ r.state.interactions[iid].id = s.interactions[iid].id
       /\ r.state.interactions[iid].kind = s.interactions[iid].kind
       /\ r.state.interactions[iid].initiator = s.interactions[iid].initiator
       /\ r.state.interactions[iid].target = s.interactions[iid].target
       /\ r.state.interactions[iid].created_turn = s.interactions[iid].created_turn
       /\ r.state.interactions[iid].data = s.interactions[iid].data

\* r is what the requesting tool t returned on state s
C19_Allocation(t, s, r) ==
  IF r.res.ok
  THEN /\ IdOf(s.next_interaction_id) \notin DOMAIN s.interactions
       /\ DOMAIN r.state.interactions =
            DOMAIN s.interactions \cup {IdOf(s.next_interaction_id)}
       /\ r.state.interactions[IdOf(s.next_interaction_id)].kind = C19_KindCreatedBy(t)
       /\ r.state.interactions[IdOf(s.next_interaction_id)].status = "pending"
       /\ r.state.next_interaction_id = s.next_interaction_id + 1
  ELSE /\ DOMAIN r.state.interactions = DOMAIN s.interactions
       /\ r.state.next_interaction_id = s.next_interaction_id

\* C19: next_interaction_id never decreases; a successful talk_request or
\* request_anna creates exactly one interaction, with the id i<n> for n the
\* counter before the call, and advances the counter by one; a failing
\* request allocates no id; the ids in use are distinct and below the
\* counter; no existing interaction is overwritten or removed.
C19_IdsAllocatedOnce ==
  /\ C19_IdsIssued(state)
  /\ \A t \in ToolNames, a \in Callers :
       \A args \in ArgsOf(t, state) :
         C19_Monotone(state, invoke(t, state, a, args))
  /\ \A t \in {"talk_request", "request_anna"}, a \in Callers :
       \A args \in ArgsOf(t, state) :
         C19_Allocation(t, state, invoke(t, state, a, args))

\* C19 witness: a talk and a task request were created one after the other
\* and hold the ids i1 and i2 in some order.
C19_TwoIdsIssued ==
  /\ state.next_interaction_id = 3
  /\ DOMAIN state.interactions = {"i1", "i2"}
  /\ {state.interactions["i1"].kind, state.interactions["i2"].kind} = {"talk", "task_request"}

(***************************************************************************)
(* Requests of kevin                                                       *)
(***************************************************************************)
C20_TaskRequests(s) ==
  {iid \in DOMAIN s.interactions : s.interactions[iid].kind = "task_request"}

C20_RequestsLeft(s) == _get_counter(s, "kevin", "requests_left", 0)

\* r is what request_anna returned on state s for args
C20_Requested(s, args, r) ==
  IF r.res.ok
  THEN /\ IdOf(s.next_interaction_id) \notin DOMAIN s.interactions
       /\ DOMAIN r.state.interactions =
            DOMAIN s.interactions \cup {IdOf(s.next_interaction_id)}
       /\ r.state.interactions[IdOf(s.next_interaction_id)].kind = "task_request"
       /\ r.state.interactions[IdOf(s.next_interaction_id)].status = "pending"
       /\ r.state.interactions[IdOf(s.next_interaction_id)].initiator = "kevin"
       /\ r.state.interactions[IdOf(s.next_interaction_id)].target = "anna"
       /\ r.state.interactions[IdOf(s.next_interaction_id)].data =
            [tool |-> args.tool, args |-> Get(args, "args", EmptyArgs)]
       /\ C20_RequestsLeft(r.state) = C20_RequestsLeft(s) - 1
       /\ C10_Pointer(r.state) = C10_Stepped(s)
  ELSE /\ C20_RequestsLeft(r.state) = C20_RequestsLeft(s)
       /\ r.state.interactions = s.interactions

\* C20: a successful request_anna creates exactly one pending task_request
\* from kevin to anna carrying the tool and its args, takes exactly one from
\* kevin's requests_left and advances the turn pointer by one; a failing
\* one changes neither requests_left nor interactions; so no more than the
\* initial 9 task requests are ever created.
C20_RequestsAreMetered ==
  /\ \A a \in Callers :
       \A args \in ArgsOf("request_anna", state) :
         C20_Requested(state, args, invoke("request_anna", state, a, args))
  /\ Cardinality(C20_TaskRequests(state)) + C20_RequestsLeft(state) = 9
  /\ Cardinality(C20_TaskRequests(state)) <= 9

\* C20 witness: kevin has made his ninth request and has none left.
C20_NinthRequestMade ==
  /\ Cardinality(C20_TaskRequests(state)) = 9
  /\ C20_RequestsLeft(state) = 0
  /\ state.events[Len(state.events)].type = "task_request"
  /\ res.ok

(***************************************************************************)
(* Accepting a task request                                                *)
(***************************************************************************)
\* the room the request d = {tool, args} sends the acceptor to
C21_Destination(d) ==
  CASE d.tool = "clean_living_room" -> "living_room"
    [] d.tool \in {"wash_dishes", "cook"} -> "kitchen"
    [] OTHER -> d.args.dst

\* the task id the request d completes; a move completes none
C21_Chore(d) ==
  CASE d.tool = "clean_living_room" -> {"clean_living_room"}
    [] d.tool = "wash_dishes" -> {"wash_dishes"}
    [] d.tool = "cook" -> {"cook:" \o d.args.food}
    [] OTHER -> {}

\* r is what task_accept returned on state s for the pending request iid
C21_Fulfilled(s, iid, r) ==
  /\ r.state.locations["anna"] = C21_Destination(s.interactions[iid].data)
  /\ C21_Chore(s.interactions[iid].data) \subseteq r.state.completed_tasks
  /\ \A c \in C21_Chore(s.interactions[iid].data) :
       \E i \in (Len(s.events) + 1)..Len(r.state.events) :
         /\ r.state.events[i].type = "task_completed"
         /\ r.state.events[i].args.task_id = c
  /\ r.state.interactions[iid].status = "closed"
  /\ r.state.events[Len(r.state.events)].type = "task_fulfilled"
  /\ r.state.events[Len(r.state.events)].args.interaction_id = iid
  /\ C10_Pointer(r.state) = C10_Stepped(s)

C21_Refused(s, iid, r) ==
  /\ r.state.locations = s.locations
  /\ r.state.completed_tasks = s.completed_tasks
  /\ \A i \in (Len(s.events) + 1)..Len(r.state.events) :
       r.state.events[i].type # "task_completed"
  /\ r.state.interactions[iid].status = "declined"
  /\ r.state.interactions[iid].ended_reason = "destination locked"

C21_AcceptedOrRefused(s, iid, r) ==
  IF is_locked(s, C21_Destination(s.interactions[iid].data))
  THEN ~r.res.ok /\ C21_Refused(s, iid, r)
  ELSE r.res.ok /\ C21_Fulfilled(s, iid, r)

\* C21: task_accept of a pending request, in one step, moves anna to the
\* room implied by the requested tool whatever room she is in, runs the
\* chore, closes the interaction, appends task_fulfilled with the
\* interaction id and advances the turn; when the destination is locked
\* anna stays where she is, no chore runs, completed_tasks is unchanged and
\* the interaction is declined with reason destination locked.
C21_AcceptRunsTheRequest ==
  \A iid \in DOMAIN state.interactions :
    IsPendingTaskRequestFor(state, iid, "anna") =>
      C21_AcceptedOrRefused(state, iid,
                            invoke("task_accept", state, "anna", [interaction_id |-> iid]))

\* C21 witness: anna went into kevin's room, kevin asked her into the
\* kitchen, which is not adjacent to his room, and she accepted.
C21_ForcedFromKevinRoomToKitchen ==
  /\ Len(state.events) = 4
  /\ state.events[1].type = "move" /\ state.events[1].args.dst = "kevin_room"
  /\ state.events[1].actor = "anna"
  /\ state.events[2].type = "task_request"
  /\ state.events[3].type = "forced_move"
  /\ state.events[4].type = "task_fulfilled"
  /\ state.locations["anna"] = "kitchen"
  /\ res.ok

\* C21 witness of the refusal: anna accepted a request to go to her locked
\* room and the request was declined.
C21_LockedDestinationDeclined ==
  /\ Len(state.events) = 2
  /\ state.events[2].type = "task_reject"
  /\ state.events[2].args.reason = "destination locked"
  /\ state.locations["anna"] = "living_room"
  /\ ~res.ok

(***************************************************************************)
(* The price of a rejection                                                *)
(***************************************************************************)
C22_RejectsLeft(s) == _get_counter(s, "anna", "rejects_left", 0)

\* r is what the tool returned on state s for the pending request iid:
\* a request that ends declined costs one reject, a failing task_reject none
C22_Paid(t, s, iid, r) ==
  /\ (s.interactions[iid].status = "pending"
        /\ r.state.interactions[iid].status = "declined") =>
       C22_RejectsLeft(r.state) = C22_RejectsLeft(s) - 1
  /\ (t = "task_reject" /\ ~r.res.ok) => C22_RejectsLeft(r.state) = C22_RejectsLeft(s)

\* C22: every task request that task_reject ends as declined on behalf of
\* anna, through the task_reject tool or through the destination-locked
\* conversion inside task_accept, takes exactly 1 from anna's rejects_left;
\* a task_reject that fails leaves rejects_left unchanged.
C22_EveryRejectionCostsOne ==
  \A t \in {"task_reject", "task_accept"}, a \in Callers :
    \A iid \in DOMAIN state.interactions :
      state.interactions[iid].kind = "task_request" =>
        C22_Paid(t, state, iid, invoke(t, state, a, [interaction_id |-> iid]))

\* C22 witness: a request was declined by the destination-locked conversion
\* and anna still has her three rejects.
C22_DeclinedAtNoCost ==
  /\ Len(state.events) = 2
  /\ state.events[2].type = "task_reject"
  /\ state.events[2].args.reason = "destination locked"
  /\ state.interactions["i1"].status = "declined"
  /\ C22_RejectsLeft(state) = 3

(***************************************************************************)
(* Guesses                                                                 *)
(***************************************************************************)
\* the positions of the guess events in the log of s
C23_Guesses(s) == {i \in 1..Len(s.events) : s.events[i].type = "guess"}

C23_Guessed(s) == {s.events[i].args.task_id : i \in C23_Guesses(s)}

\* r is what a successful guess of the task id tid returned on state s
C23_Scored(s, tid, r) ==
  /\ tid \in {"clean_living_room", "wash_dishes", "cook:egg", "cook:bacon", "cook:hotdog"}
  /\ _get_counter(s, "anna", "guesses_left", 0) > 0
  /\ tid \notin C23_Guessed(s)
  /\ _get_counter(r.state, "anna", "guesses_left", 0) =
       _get_counter(s, "anna", "guesses_left", 0) - 1
  /\ C23_Guesses(r.state) = C23_Guesses(s) \cup {Len(r.state.events)}
  /\ Len(r.state.events) > Len(s.events)
  /\ r.state.events[Len(r.state.events)].args.task_id = tid
  /\ r.state.events[Len(r.state.events)].args.correct = (tid \in s.completed_tasks)

\* C23: a guess succeeds only for anna, only for a task id of the one-time
\* catalog (after strip and lower), only while guesses_left > 0 and only
\* for an id not guessed before; it takes exactly 1 from guesses_left and
\* appends one guess event whose correct flag is the membership of the id
\* in completed_tasks at that moment.  No two guess events carry the same
\* task id, and completing a task later leaves every guess event recorded
\* as it was.
C23_GuessesScoredOnce ==
  /\ \A a \in Callers :
       \A args \in ArgsOf("guess", state) :
         invoke("guess", state, a, args).res.ok =>
           a = "anna" /\ C23_Scored(state, strip_lower(args.task_id),
                                    invoke("guess", state, a, args))
  /\ \A i \in C23_Guesses(state), j \in C23_Guesses(state) :
       i # j => state.events[i].args.task_id # state.events[j].args.task_id
  /\ \A t \in {"clean_living_room", "wash_dishes", "cook", "task_accept"}, a \in Callers :
       \A args \in ArgsOf(t, state) :
         C18_LogExtended(state, invoke(t, state, a, args))

\* C23 witness: anna guessed clean_living_room wrongly, then cleaned the
\* living room, then guessed another id; the first guess is still recorded
\* as wrong.
C23_WrongGuessStandsAfterCompletion ==
  /\ Len(state.events) = 3
  /\ state.events[1].type = "guess"
  /\ state.events[1].args.task_id = "clean_living_room"
  /\ ~state.events[1].args.correct
  /\ state.events[2].type = "task_completed"
  /\ "clean_living_room" \in state.completed_tasks
  /\ state.events[3].type = "guess"
  /\ res.ok

(***************************************************************************)
(* end_turn and skip                                                       *)
(***************************************************************************)
\* r appended exactly one event, of the given type, to the log of s and
\* moved the turn pointer one position on
C24_OneEventOneStep(s, r, type) ==
  /\ r.res.ok
  /\ ~r.res.raised
  /\ Len(r.state.events) = Len(s.events) + 1
  /\ SubSeq(r.state.events, 1, Len(s.events)) = s.events
  /\ r.state.events[Len(r.state.events)].type = type
  /\ C10_Pointer(r.state) = C10_Stepped(s)

\* the state with the type of its last event blanked
C24_Untyped(s) ==
  [s EXCEPT !.events = [@ EXCEPT ![Len(s.events)] = [@ EXCEPT !.type = ""]]]

C24_Equivalent(s, e, k) ==
  /\ C24_OneEventOneStep(s, e, "end_turn")
  /\ C24_OneEventOneStep(s, k, "skip")
  /\ C24_Untyped(e.state) = C24_Untyped(k.state)

\* C24: for every reachable state and actor, end_turn and skip invoked
\* through invoke both succeed, each appends exactly one event (end_turn,
\* skip) and moves the turn pointer one position on, and the two resulting
\* states are equal but for the type of that event.
C24_EndTurnEqualsSkip ==
  \A a \in Callers :
    C24_Equivalent(state, invoke("end_turn", state, a, EmptyArgs),
                   invoke("skip", state, a, EmptyArgs))

\* C24 witness: end_turn was invoked and raised; the caller is left with
\* the state it had.
C24_EndTurnRaised ==
  /\ res.raised
  /\ ~res.ok
  /\ state = make_initial_state

(***************************************************************************)
(* Capability gating                                                       *)
(***************************************************************************)
\* every successful invocation of the tool t in s is of a tool visible to
\* its actor in s
C25_Gated(t, s) ==
  \A a \in Callers :
    \A args \in ArgsOf(t, s) :
      invoke(t, s, a, args).res.ok => has_spec(t) /\ visible(t, s, a)

\* C25: whenever invoke(t, ctx, args) succeeds for actor a in state s the
\* visible predicate of t holds for (s, a); in particular a participant of
\* an active talk cannot successfully invoke move_to, lock or unlock, and
\* talk_say never succeeds for an actor with no active talk.
C25_OnlyVisibleToolsSucceed ==
  \A t \in ToolNames : C25_Gated(t, state)

\* C25 witness: kevin and anna are in an active talk and kevin has walked
\* out of the room; list_specs raises for him instead of listing tools.
C25_MovedWhileTalking ==
  /\ Len(state.events) = 3
  /\ state.events[3].type = "move"
  /\ in_active_talk(state, state.events[3].actor)
  /\ res.ok
  /\ list_specs(state, state.events[3].actor).raised

(***************************************************************************)
(* Who may do what to a talk                                               *)
(***************************************************************************)
\* the conditions under which the tool t may succeed for caller a on inter
C26_Authorized(t, s, a, inter) ==
  /\ inter.kind = "talk"
  /\ t \in {"talk_accept", "talk_decline"} => a = inter.target /\ inter.status = "pending"
  /\ t = "talk_accept" =>
       /\ LocationOf(s, inter.initiator) = inter.room_id
       /\ LocationOf(s, inter.target) = inter.room_id
  /\ t \in {"talk_say", "talk_end"} =>
       a \in {inter.initiator, inter.target} /\ inter.status = "active"

C26_SucceedsOnlyIfAuthorized(t, s, a, args) ==
  invoke(t, s, a, args).res.ok =>
    /\ Has(args, "interaction_id")
    /\ args.interaction_id \in DOMAIN s.interactions
    /\ C26_Authorized(t, s, a, s.interactions[args.interaction_id])

\* C26: talk_accept and talk_decline succeed only for the target of a
\* pending talk, talk_accept only while initiator and target are both in
\* the talk's room; talk_say and talk_end succeed only for the initiator or
\* the target of an active talk.  So every stored message was spoken by one
\* of the two participants and every talk was started by its target, never
\* by its initiator.
C26_TalkAuthorization ==
  /\ \A t \in {"talk_accept", "talk_decline", "talk_say", "talk_end"}, a \in Callers :
       \A args \in ArgsOf(t, state) : C26_SucceedsOnlyIfAuthorized(t, state, a, args)
  /\ \A iid \in DOMAIN state.interactions :
       \A i \in 1..Len(state.interactions[iid].messages) :
         state.interactions[iid].messages[i].speaker \in
           {state.interactions[iid].initiator, state.interactions[iid].target}
  /\ \A i \in 1..Len(state.events) :
       state.events[i].type = "talk_start" =>
         /\ state.events[i].actor = state.interactions[state.events[i].args.interaction_id].target
         /\ state.events[i].actor # state.interactions[state.events[i].args.interaction_id].initiator

\* C26 witness: a talk was requested, accepted by its target and one of
\* the two has spoken.
C26_ParticipantSpoke ==
  /\ Len(state.events) = 3
  /\ state.events[2].type = "talk_start"
  /\ state.events[3].type = "talk_say"
  /\ Len(state.interactions["i1"].messages) = 1
  /\ res.ok

(***************************************************************************)
(* Requesting a talk                                                       *)
(***************************************************************************)
C27_PendingTalks(s, initiator, target) ==
  {iid \in DOMAIN s.interactions :
     /\ s.interactions[iid].kind = "talk"
     /\ s.interactions[iid].status = "pending"
     /\ s.interactions[iid].initiator = initiator
     /\ s.interactions[iid].target = target}

\* the three refusals of the claim
C27_MustFail(s, initiator, target, room_id) ==
  \/ initiator = target
  \/ LocationOf(s, initiator) # room_id
  \/ LocationOf(s, target) # room_id
  \/ C27_PendingTalks(s, initiator, target) # {}

\* r is what the talk_request tool returned through invoke on state s
C27_CreatedInSharedRoom(s, a, args, r) ==
  r.res.ok =>
    /\ LocationOf(s, a) = LocationOf(s, args.target)
    /\ r.state.interactions[IdOf(s.next_interaction_id)].room_id = LocationOf(s, a)
    /\ r.state.interactions[IdOf(s.next_interaction_id)].initiator = a
    /\ r.state.interactions[IdOf(s.next_interaction_id)].target = args.target
    /\ a # args.target
    /\ C27_PendingTalks(s, a, args.target) = {}

\* C27: talk_request fails and returns the state unchanged when initiator
\* and target are the same, when they are not both in the room, or when
\* the initiator already has a pending talk to the target; so there is at
\* most one pending talk per ordered pair (initiator, target), and every
\* talk is created with both parties in its room_id.
C27_TalkRequestRefusals ==
  /\ \A i \in Callers, tg \in Callers, room \in Rooms :
       C27_MustFail(state, i, tg, room) =>
         /\ talk_request(state, i, tg, room).state = state
         /\ ~talk_request(state, i, tg, room).res.ok
  /\ \A i \in Callers, tg \in Callers :
       (i = tg \/ LocationOf(state, i) # LocationOf(state, tg)
          \/ C27_PendingTalks(state, i, tg) # {}) =>
         /\ TalkRequestTool_run(state, i, [target |-> tg]).state = state
         /\ ~TalkRequestTool_run(state, i, [target |-> tg]).res.ok
  /\ \A i \in Callers, tg \in Callers : Cardinality(C27_PendingTalks(state, i, tg)) <= 1
  /\ \A a \in Callers :
       \A args \in ArgsOf("talk_request", state) :
         C27_CreatedInSharedRoom(state, a, args, invoke("talk_request", state, a, args))

\* C27 witness: kevin asked anna for a talk and walked away; an invocation
\* of anna then failed and no second talk was created.
C27_NoTalkAcrossRooms ==
  /\ Len(state.events) = 3
  /\ state.events[1].type = "talk_request"
  /\ state.events[2].type = "move"
  /\ state.events[2].actor = "kevin"
  /\ state.locations["kevin"] # state.locations["anna"]
  /\ ~res.ok
  /\ state.next_interaction_id = 2

(***************************************************************************)
(* Speaking in a talk                                                      *)
(***************************************************************************)
C28_Separated(s, inter) ==
  \/ LocationOf(s, inter.initiator) # inter.room_id
  \/ LocationOf(s, inter.target) # inter.room_id

\* the events of the given type that r appended to the log of s
C28_Appended(s, r, type) ==
  {i \in (Len(s.events) + 1)..Len(r.state.events) : r.state.events[i].type = type}

\* r is what talk_say by the participant a returned on the active talk iid
C28_SpokenOrClosed(s, a, iid, r) ==
  IF C28_Separated(s, s.interactions[iid])
  THEN /\ r.state.interactions[iid].messages = s.interactions[iid].messages
       /\ r.state.interactions[iid].status = "closed"
       /\ r.state.interactions[iid].ended_reason = "separated"
       /\ r.state.interactions[iid].ended_by = a
       /\ Cardinality(C28_Appended(s, r, "talk_end")) = 1
       /\ C28_Appended(s, r, "talk_say") = {}
       /\ C10_Pointer(r.state) = C10_Pointer(s)
  ELSE r.state.interactions[iid].messages =
         Append(s.interactions[iid].messages, [speaker |-> a, text |-> "hi", turn |-> s.turn])

\* C28: talk_say by a participant of an active talk whose initiator and
\* target are not both in its room_id stores no message: the talk becomes
\* closed with ended_reason separated and ended_by the caller, one talk_end
\* event is emitted and the turn pointer stays; while both are in the room
\* it appends exactly one message {speaker, text, turn} and leaves the
\* earlier messages as they were.
C28_SayOrSeparate ==
  \A a \in Callers :
    \A iid \in DOMAIN state.interactions :
      IsActiveTalkOf(state, iid, a) =>
        C28_SpokenOrClosed(state, a, iid,
                           invoke("talk_say", state, a, [interaction_id |-> iid, text |-> "hi"]))

\* C28 witness: a talk was started, one participant walked out and the
\* next talk_say closed the talk as separated.
C28_ClosedAsSeparated ==
  /\ Len(state.events) = 4
  /\ state.events[2].type = "talk_start"
  /\ state.events[3].type = "move"
  /\ state.events[4].type = "talk_end"
  /\ state.interactions["i1"].ended_reason = "separated"
  /\ state.interactions["i1"].messages = <<>>
  /\ res.ok

(***************************************************************************)
(* The guess account                                                       *)
(***************************************************************************)
C29_Count(s, type) == Cardinality({i \in 1..Len(s.events) : s.events[i].type = type})

\* C29: anna's guesses_left is the initial 1 plus the number of
\* task_completed events minus the number of guess events of the log:
\* every completion, direct or through task_accept, credits exactly one
\* guess and nothing else changes guesses_left.
C29_GuessAccountBalances ==
  _get_counter(state, "anna", "guesses_left", 0) =
    1 + C29_Count(state, "task_completed") - C29_Count(state, "guess")

\* C29 witness: anna spent her guess and earned one back by completing a
\* chore kevin requested.
C29_GuessSpentAndEarnedBack ==
  /\ C29_Count(state, "guess") = 1
  /\ C29_Count(state, "task_completed") = 1
  /\ state.events[Len(state.events)].type = "task_fulfilled"
  /\ _get_counter(state, "anna", "guesses_left", 0) = 1

(***************************************************************************)
(* The hub rule of move_to                                                 *)
(***************************************************************************)
\* r is what invoke("move_to") returned for the located actor a on state s
C30_ThroughTheHub(s, a, dst, r) ==
  /\ r.res.ok => s.locations[a] = "living_room" \/ dst = "living_room"
  /\ (s.locations[a] # "living_room" /\ dst # "living_room") =>
       /\ ~r.res.ok
       /\ MoveToTool_run(s, a, [dst |-> dst]).state = s
       /\ r.state = s
  /\ (s.locations[a] = "kitchen" /\ dst = "dining_room") =>
       apply_move(s, a, dst).res.ok

\* C30: every successful move_to through invoke starts from living_room or
\* goes to living_room; a move between two other rooms, such as kitchen to
\* dining_room, is denied with the state unchanged (the tool returns the
\* state it was given and so does invoke), although apply_move alone
\* allows it.
C30_HubRule ==
  \A a \in Callers \cap DOMAIN state.locations, dst \in Rooms \cup {"garage"} :
    C30_ThroughTheHub(state, a, dst, invoke("move_to", state, a, [dst |-> dst]))

\* C30 witness: kevin and anna are in the kitchen and anna has asked kevin
\* for a talk, which is pending against him.
C30_AskedInTheKitchen ==
  /\ state.locations["kevin"] = "kitchen"
  /\ state.locations["anna"] = "kitchen"
  /\ Len(state.events) = 3
  /\ state.events[3].type = "talk_request"
  /\ \E iid \in DOMAIN state.interactions :
       /\ state.interactions[iid].target = "kevin"
       /\ state.interactions[iid].status = "pending"

(***************************************************************************)
(* Locking and unlocking a room                                            *)
(***************************************************************************)
\* the rooms whose entry of room_locked differs between s and the state of r
C31_Toggled(s, r) ==
  {k \in DOMAIN s.room_locked : r.state.room_locked[k] # s.room_locked[k]}

\* the tool t ("lock" or "unlock") has nothing to do for room_id in s
C31_NothingToDo(s, t, room_id) ==
  \/ room_id \notin DOMAIN s.room_locked
  \/ t = "lock" /\ s.room_locked[room_id]
  \/ t = "unlock" /\ ~s.room_locked[room_id]

\* ran is what the tool's run returned and r what invoke returned for the
\* tool t by the actor a on room_id in the state s
C31_OneEntry(s, t, a, room_id, ran, r) ==
  /\ C31_NothingToDo(s, t, room_id) =>
       /\ ~ran.res.ok
       /\ ran.state = s
       /\ ~r.res.ok
       /\ r.state = decay(t, s, a)
  /\ DOMAIN r.state.room_locked = DOMAIN s.room_locked
  /\ r.res.ok =>
       /\ C31_Toggled(s, r) = {room_id}
       /\ r.state.room_locked[room_id] = (t = "lock")
       /\ Cardinality(C28_Appended(s, r, "lock_room")
                      \cup C28_Appended(s, r, "unlock_room")) = 1
       /\ r.state.events[Len(r.state.events)].type = t \o "_room"
       /\ r.state.locations = s.locations

\* C31: lock fails with the state unchanged on a locked room and unlock on
\* an unlocked room, both fail for a room without an entry in room_locked
\* such as living_room; the key set of room_locked never changes; a
\* successful lock or unlock changes exactly one entry of room_locked,
\* appends exactly one lock_room or unlock_room event and moves nobody.
C31_LockToggle ==
  /\ DOMAIN state.room_locked = DOMAIN make_initial_state.room_locked
  /\ "living_room" \notin DOMAIN state.room_locked
  /\ \A t \in {"lock", "unlock"}, a \in Callers, room_id \in LockArgs :
       C31_OneEntry(state, t, a, room_id,
                    run(t, state, a, [room_id |-> room_id]),
                    invoke(t, state, a, [room_id |-> room_id]))

\* C31 witness: kevin locked his room and unlocked it again.
C31_LockedAndUnlockedAgain ==
  /\ Len(state.events) = 2
  /\ state.events[1].type = "lock_room"
  /\ state.events[2].type = "unlock_room"
  /\ state.events[2].args.room_id = "kevin_room"
  /\ ~state.room_locked["kevin_room"]
  /\ res.ok

(***************************************************************************)
(* Nobody enters a locked room                                             *)
(***************************************************************************)
\* the actors whose location differs between s and the state of r
C32_Relocated(s, r) ==
  {x \in DOMAIN s.locations : r.state.locations[x] # s.locations[x]}

\* room has the value true in the room_locked of s
C32_LockedIn(s, room) == room \in DOMAIN s.room_locked /\ s.room_locked[room]

\* r is what invoke returned for the tool t by the actor a on the state s;
\* the relocation is applied to the state left by the decay step
C32_EnteredUnlocked(s, t, a, r) ==
  /\ DOMAIN r.state.locations = DOMAIN s.locations
  /\ \A x \in C32_Relocated(s, r) :
       /\ ~C32_LockedIn(s, r.state.locations[x])
       /\ ~C32_LockedIn(decay(t, s, a), r.state.locations[x])
       /\ ~C32_LockedIn(r.state, r.state.locations[x])
       /\ t \in {"move_to", "task_accept"}

\* C32: in every invocation in which some actor's location changes to a
\* room r, by move_to or by the forced relocation of task_accept,
\* room_locked[r] is not true in the state the relocation is applied to.
C32_NoEntryIntoLockedRoom ==
  \A t \in ToolNames, a \in Callers :
    \A args \in ArgsOf(t, state) :
      C32_EnteredUnlocked(state, t, a, invoke(t, state, a, args))

\* C32 witness: anna unlocked her room and kevin then walked into it.
C32_WalkedInAfterUnlock ==
  /\ Len(state.events) = 2
  /\ state.events[1].type = "unlock_room"
  /\ state.events[1].args.room_id = "anna_room"
  /\ state.events[2].type = "move"
  /\ state.events[2].actor = "kevin"
  /\ state.locations["kevin"] = "anna_room"
  /\ ~state.room_locked["anna_room"]

(***************************************************************************)
(* The dynamic choices of move_to, lock and unlock                         *)
(***************************************************************************)
\* the values v of the argument k for which invoking t succeeds in s
C33_Succeeding(s, t, a, k, values) ==
  {v \in values : invoke(t, s, a, [x \in {k} |-> v]).res.ok}

C33_Exact(s, a) ==
  /\ MoveToTool_choices(s, a) = C33_Succeeding(s, "move_to", a, "dst", RoomArgs)
  /\ _toggleable_rooms(s, a, FALSE) =
       C33_Succeeding(s, "lock", a, "room_id", RoomArgs)
  /\ _toggleable_rooms(s, a, TRUE) =
       C33_Succeeding(s, "unlock", a, "room_id", RoomArgs)

\* C33: for every actor not in an active talk, the dst choices of move_to
\* are exactly the rooms for which invoking move_to succeeds, and the
\* room_id choices of lock and of unlock are exactly the rooms for which
\* invoking lock, respectively unlock, succeeds.
C33_ChoicesAreExact ==
  \A a \in Callers : ~in_active_talk(state, a) => C33_Exact(state, a)

\* C33 witness: kevin moved to the kitchen; his only move_to choice is
\* living_room, he can lock nothing from there, and anna is offered her
\* locked room to unlock.
C33_OnlyTheHubFromKitchen ==
  /\ Len(state.events) = 1
  /\ state.events[1].type = "move"
  /\ state.locations["kevin"] = "kitchen"
  /\ ~in_active_talk(state, "kevin")
  /\ MoveToTool_choices(state, "kevin") = {"living_room"}
  /\ _toggleable_rooms(state, "kevin", FALSE) = {}
  /\ _toggleable_rooms(state, "anna", TRUE) = {"anna_room"}

(***************************************************************************)
(* Pending talk requests at the end of the target's sub-turn               *)
(***************************************************************************)
\* the actor the turn pointer of s designates
C34_Current(s) == s.turn_order[s.turn_index + 1]

\* the talks of s that are pending with the target a
C34_PendingTalksAgainst(s, a) ==
  {iid \in DOMAIN s.interactions :
     /\ s.interactions[iid].kind = "talk"
     /\ s.interactions[iid].status = "pending"
     /\ s.interactions[iid].target = a}

\* r is what invoke returned for the actor a on the state s
C34_NoneLeftBehind(s, a, r) ==
  (/\ C34_Current(s) = a
   /\ r.res.ok
   /\ C10_Pointer(r.state) # C10_Pointer(s)) =>
     C34_PendingTalksAgainst(r.state, a) = {}

\* C34: in every step in which the turn pointer moves away from the actor
\* a as the result of a's own successful invocation, no talk with target a
\* is pending in the resulting state.
C34_NoPendingTalkOutlivesSubTurn ==
  \A t \in ToolNames, a \in Callers :
    \A args \in ArgsOf(t, state) :
      C34_NoneLeftBehind(state, a, invoke(t, state, a, args))

\* C34 witness: anna is the current actor and both a talk request and a
\* task request to her are pending, so that her task_accept ends her
\* sub-turn without the decay step.
C34_TalkAndTaskPendingForCurrent ==
  /\ C34_Current(state) = "anna"
  /\ C34_PendingTalksAgainst(state, "anna") # {}
  /\ \E iid \in PendingAgainst(state, "anna") :
       /\ state.interactions[iid].kind = "task_request"
       /\ ~C34_NoneLeftBehind(state, "anna",
                              invoke("task_accept", state, "anna", [interaction_id |-> iid]))

(***************************************************************************)
(* The turn stamp of events                                                *)
(***************************************************************************)
\* the turn fields along the log of s never decrease and never exceed turn
C35_NonDecreasing(s) ==
  /\ \A i, j \in 1..Len(s.events) : i <= j => s.events[i].turn <= s.events[j].turn
  /\ \A i \in 1..Len(s.events) : s.events[i].turn <= s.turn

\* every event that r appended to the log of s carries the turn of s
C35_StampedWith(s, r) ==
  /\ C18_LogExtended(s, r)
  /\ \A i \in (Len(s.events) + 1)..Len(r.state.events) :
       r.state.events[i].turn = s.turn

\* r is what skip_turn or end_turn returned on s: one event of the given
\* type stamped with the turn before the advancement
C35_StampedBeforeAdvance(s, r, type) ==
  /\ Len(r.state.events) = Len(s.events) + 1
  /\ r.state.events[Len(r.state.events)].type = type
  /\ r.state.events[Len(r.state.events)].turn = s.turn
  /\ C10_Pointer(r.state) = C10_Stepped(s)
  /\ s.turn_index + 1 = Len(s.turn_order) =>
       r.state.events[Len(r.state.events)].turn = r.state.turn - 1

\* C35: every event is stamped with the turn of the state at the moment it
\* is emitted, so the turn fields along the log never decrease, and the
\* event of a skip or end_turn carries the turn from before the
\* advancement it causes.
C35_EventsStampedWithTurn ==
  /\ C35_NonDecreasing(state)
  /\ \A t \in ToolNames, a \in Callers :
       \A args \in ArgsOf(t, state) :
         C35_StampedWith(state, invoke(t, state, a, args))
  /\ \A a \in Callers :
       /\ C35_StampedBeforeAdvance(state, skip_turn(state, a), "skip")
       /\ C35_StampedBeforeAdvance(state, end_turn(state, a), "end_turn")
       /\ C35_StampedBeforeAdvance(decay("skip", state, a),
                                   invoke("skip", state, a, EmptyArgs), "skip")

\* C35 witness: the last event is a skip that closed a round; it carries
\* the turn before the increment and an earlier event is in the log.
C35_SkipStampedBeforeWrap ==
  /\ Len(state.events) >= 2
  /\ state.events[Len(state.events)].type = "skip"
  /\ state.events[Len(state.events)].turn = state.turn - 1
  /\ state.turn_index = 0
  /\ res.ok

(***************************************************************************)
(* The end fields of interactions                                          *)
(***************************************************************************)
C36_EndSet(inter) ==
  /\ inter.ended_by # None
  /\ inter.ended_reason # None
  /\ inter.ended_turn # NoTurn

C36_EndUnset(inter) ==
  /\ inter.ended_by = None
  /\ inter.ended_reason = None
  /\ inter.ended_turn = NoTurn

C36_Ordered(inter) ==
  /\ inter.started_turn # NoTurn => inter.created_turn <= inter.started_turn
  /\ inter.ended_turn # NoTurn => inter.created_turn <= inter.ended_turn
  /\ (inter.started_turn # NoTurn /\ inter.ended_turn # NoTurn) =>
       inter.started_turn <= inter.ended_turn

C36_WellFormed(inter) ==
  /\ inter.status \in {"closed", "declined"} => C36_EndSet(inter)
  /\ inter.status \in {"pending", "active"} => C36_EndUnset(inter)
  /\ (inter.kind = "talk" /\ inter.status \in {"active", "closed"}) =>
       inter.started_turn # NoTurn
  /\ C36_Ordered(inter)

\* C36: every closed or declined interaction has ended_by, ended_reason
\* and ended_turn set, every pending or active one has none of them set,
\* every active or closed talk has started_turn set, and
\* created_turn <= started_turn <= ended_turn wherever the fields are set.
C36_EndFieldsMatchStatus ==
  \A iid \in DOMAIN state.interactions : C36_WellFormed(state.interactions[iid])

\* C36 witness: anna declined kevin's talk request with talk_decline; the
\* talk is declined and none of its end fields is set.
C36_DeclinedWithoutEndFields ==
  /\ Len(state.events) = 2
  /\ state.events[2].type = "talk_decline"
  /\ "auto" \notin DOMAIN state.events[2].args
  /\ "i1" \in DOMAIN state.interactions
  /\ state.interactions["i1"].status = "declined"
  /\ C36_EndUnset(state.interactions["i1"])

(***************************************************************************)
(* Progress of the simulation                                              *)
(***************************************************************************)
\* r is what invoke("skip") by the current actor returned on s
C37_SkipAdvances(s, r) ==
  /\ r.res.ok
  /\ ~r.res.raised
  /\ C10_Pointer(r.state) = C10_Stepped(s)
  /\ C10_Pointer(r.state) # C10_Pointer(s)

C37_SkipAlwaysPossible ==
  C37_SkipAdvances(state, invoke("skip", state, current_actor(state), EmptyArgs))

\* main has returned: quit was typed, or a call raised an exception that
\* main does not catch
C37_Ended == cli.at = "exit" \/ res.raised

\* C37: in every reachable state invoke(skip) by the current actor
\* succeeds and advances the turn pointer; and when every prompt is
\* eventually answered with a turn-consuming command (weak fairness),
\* every actor of turn_order becomes the current actor again in every round
\* below the bound and turn eventually reaches the bound, in every run in
\* which main has not returned before.
C37_AlwaysProgresses ==
  /\ [] C37_SkipAlwaysPossible
  /\ \A a \in {"kevin", "anna"} :
       [] (state.turn < MaxLiveTurns => <> (current_actor(state) = a \/ C37_Ended))
  /\ <> [] (state.turn = MaxLiveTurns \/ C37_Ended)

\* C37 witness: the bound is reached after both actors ended a sub-turn
\* with a skip.
C37_BoundReachedBySkipping ==
  /\ state.turn = MaxLiveTurns
  /\ state.turn_index = 0
  /\ \E i, j \in 1..Len(state.events) :
       /\ state.events[i].type = "skip" /\ state.events[i].actor = "kevin"
       /\ state.events[j].type = "skip" /\ state.events[j].actor = "anna"
====
